---- MODULE Spec2Model ----
(***************************************************************************)
(* Roadmap generation pipeline of thesis-planner-backend                   *)
(* (src/src/utils/generateThesisRoadmap.ts).                               *)
(*                                                                         *)
(* Texts are sequences of one-character strings.  A parsed JSON value is   *)
(* represented by its canonical serialisation (a sequence of tokens, the   *)
(* characters JSON.stringify would emit), so that two values are           *)
(* structurally equal exactly when their representations are equal; the    *)
(* JavaScript value null is NullV.                                         *)
(***************************************************************************)
EXTENDS Integers, Sequences, FiniteSets, TLC

Q  == "\""
BS == "\\"
NL == "\n"
CR == "\r"
TAB == "\t"
SP == " "

\* ECMAScript WhiteSpace / LineTerminator restricted to the model's alphabet
WhiteSpace == {SP, NL, CR, TAB}
LineTerminators == {NL, CR}
Digit == {"0", "1", "2", "3", "4", "5", "6", "7", "8", "9"}

NullV == <<"n", "u", "l", "l">>
\* a raw text variable that holds null (no text captured)
NullRaw == <<"<null>">>

Min(S) == CHOOSE x \in S : \A y \in S : x <= y

MatchAt(s, i, w) ==
    /\ i >= 1
    /\ i + Len(w) - 1 <= Len(s)
    /\ \A k \in 1..Len(w) : s[i + k - 1] = w[k]

Includes(s, w) == \E i \in 1..(Len(s) + 1) : MatchAt(s, i, w)

StartsWith(s, w) == MatchAt(s, 1, w)

RECURSIVE SkipWs(_, _)
SkipWs(s, i) == IF i <= Len(s) /\ s[i] \in WhiteSpace THEN SkipWs(s, i + 1) ELSE i

RECURSIVE SkipWsBack(_, _)
SkipWsBack(s, i) == IF i >= 1 /\ s[i] \in WhiteSpace THEN SkipWsBack(s, i - 1) ELSE i

Trim(s) ==
    LET a == SkipWs(s, 1)
        b == SkipWsBack(s, Len(s))
    IN  IF a > b THEN <<>> ELSE SubSeq(s, a, b)

(***************************************************************************)
(* JSON.parse, on the alphabet of the model: objects, arrays, strings with *)
(* the single-character escapes, unsigned integers, true / false / null.   *)
(* A result is [ok, pos, out]: ok = FALSE is the SyntaxError JSON.parse    *)
(* throws.                                                                 *)
(***************************************************************************)
PFail == [ok |-> FALSE, pos |-> 0, out |-> <<>>]
POk(p, o) == [ok |-> TRUE, pos |-> p, out |-> o]

EscapeChars == {Q, BS, "/", "b", "f", "n", "r", "t"}
\* canonical token of the character an escape sequence decodes to
EscTok(c) == IF c = "/" THEN "/" ELSE BS \o c

RECURSIVE ParseStringBody(_, _, _)
ParseStringBody(s, i, acc) ==
    IF i > Len(s) THEN PFail
    ELSE IF s[i] = Q THEN POk(i + 1, Append(acc, Q))
    ELSE IF s[i] = BS THEN
        IF i + 1 <= Len(s) /\ s[i + 1] \in EscapeChars
        THEN ParseStringBody(s, i + 2, Append(acc, EscTok(s[i + 1])))
        ELSE PFail
    ELSE IF s[i] \in {NL, CR, TAB} THEN PFail
    ELSE ParseStringBody(s, i + 1, Append(acc, s[i]))

ParseString(s, i) ==
    IF i <= Len(s) /\ s[i] = Q THEN ParseStringBody(s, i + 1, <<Q>>) ELSE PFail

RECURSIVE ScanDigits(_, _)
ScanDigits(s, i) == IF i <= Len(s) /\ s[i] \in Digit THEN ScanDigits(s, i + 1) ELSE i

ParseNumber(s, i) ==
    IF s[i] = "0" THEN POk(i + 1, <<"0">>)
    ELSE LET j == ScanDigits(s, i) IN POk(j, SubSeq(s, i, j - 1))

LitTrue == <<"t", "r", "u", "e">>
LitFalse == <<"f", "a", "l", "s", "e">>

ParseLiteral(s, i) ==
    IF MatchAt(s, i, LitTrue) THEN POk(i + 4, LitTrue)
    ELSE IF MatchAt(s, i, LitFalse) THEN POk(i + 5, LitFalse)
    ELSE IF MatchAt(s, i, NullV) THEN POk(i + 4, NullV)
    ELSE PFail

RECURSIVE ParseValue(_, _)
RECURSIVE ParseElements(_, _, _)
RECURSIVE ParseMembers(_, _, _)

ParseValue(s, i0) ==
    LET i == SkipWs(s, i0) IN
    IF i > Len(s) THEN PFail
    ELSE IF s[i] = "[" THEN
        LET j == SkipWs(s, i + 1) IN
        IF j <= Len(s) /\ s[j] = "]" THEN POk(j + 1, <<"[", "]">>)
        ELSE ParseElements(s, j, <<"[">>)
    ELSE IF s[i] = "{" THEN
        LET j == SkipWs(s, i + 1) IN
        IF j <= Len(s) /\ s[j] = "}" THEN POk(j + 1, <<"{", "}">>)
        ELSE ParseMembers(s, j, <<"{">>)
    ELSE IF s[i] = Q THEN ParseString(s, i)
    ELSE IF s[i] \in Digit THEN ParseNumber(s, i)
    ELSE ParseLiteral(s, i)

ParseElements(s, i, acc) ==
    LET v == ParseValue(s, i) IN
    IF ~v.ok THEN PFail
    ELSE LET j == SkipWs(s, v.pos) IN
         IF j > Len(s) THEN PFail
         ELSE IF s[j] = "," THEN ParseElements(s, j + 1, acc \o v.out \o <<",">>)
         ELSE IF s[j] = "]" THEN POk(j + 1, acc \o v.out \o <<"]">>)
         ELSE PFail

ParseMembers(s, i0, acc) ==
    LET i == SkipWs(s, i0)
        k == ParseString(s, i)
    IN
    IF ~k.ok THEN PFail
    ELSE LET c == SkipWs(s, k.pos) IN
         IF c > Len(s) \/ s[c] # ":" THEN PFail
         ELSE LET v == ParseValue(s, c + 1) IN
              IF ~v.ok THEN PFail
              ELSE LET j == SkipWs(s, v.pos)
                       m == acc \o k.out \o <<":">> \o v.out
                   IN
                   IF j > Len(s) THEN PFail
                   ELSE IF s[j] = "," THEN ParseMembers(s, j + 1, m \o <<",">>)
                   ELSE IF s[j] = "}" THEN POk(j + 1, m \o <<"}">>)
                   ELSE PFail

JSONparse(s) ==
    LET r == ParseValue(s, 1) IN
    IF r.ok /\ SkipWs(s, r.pos) > Len(s)
    THEN [ok |-> TRUE, val |-> r.out]
    ELSE [ok |-> FALSE, val |-> <<>>]

(***************************************************************************)
(* extractAndParseJson                                                     *)
(***************************************************************************)
\* the backquote character (a TLA+ string cannot hold it)
BT == "<bq>"
FenceOpen == <<BT, BT, BT, "j", "s", "o", "n">>
FenceClose == <<BT, BT, BT>>

\* the i flag of the fence patterns
Lower(c) ==
    CASE c = "J" -> "j" [] c = "S" -> "s" [] c = "O" -> "o" [] c = "N" -> "n"
      [] OTHER -> c

MatchAtCI(s, i, w) ==
    /\ i >= 1
    /\ i + Len(w) - 1 <= Len(s)
    /\ \A k \in 1..Len(w) : Lower(s[i + k - 1]) = w[k]

\* ^ and $ under the m flag
LineStart(s, i) == i = 1 \/ s[i - 1] \in LineTerminators
LineEnd(s, i) == i > Len(s) \/ s[i] \in LineTerminators

Remove(s, a, b) == SubSeq(s, 1, a - 1) \o SubSeq(s, b + 1, Len(s))

\* StripLeadingFence without the m flag: a fence at the start of the text only
StripLeadingFenceTextStart(s) ==
    IF MatchAtCI(s, 1, FenceOpen) THEN Remove(s, 1, SkipWs(s, 1 + Len(FenceOpen)) - 1) ELSE s

\* .replace(/^<fence>json\s*/im, ""): the first match only (no g flag)
StripLeadingFence(s) ==
    LET starts == {i \in 1..Len(s) : LineStart(s, i) /\ MatchAtCI(s, i, FenceOpen)} IN
    IF starts = {} THEN s
    ELSE LET i == Min(starts) IN Remove(s, i, SkipWs(s, i + Len(FenceOpen)) - 1)

\* StripTrailingFence with the closing fence left in place
StripTrailingFenceNone(s) == s

\* .replace(/\s*<fence>$/im, ""): the leftmost match; \s* is greedy and what
\* follows it is no white space, so a match starting at i ends after the
\* fence that follows the whole white-space run at i
StripTrailingFence(s) ==
    LET starts == {i \in 1..Len(s) :
                      LET j == SkipWs(s, i) IN
                      MatchAt(s, j, FenceClose) /\ LineEnd(s, j + Len(FenceClose))}
    IN
    IF starts = {} THEN s
    ELSE LET i == Min(starts) IN Remove(s, i, SkipWs(s, i) + Len(FenceClose) - 1)

StripFences(raw) == Trim(StripTrailingFence(StripLeadingFence(raw)))

WordError == <<"e", "r", "r", "o", "r">>
WordSorry == <<"s", "o", "r", "r", "y">>
PlainTextMaxLen == 200

\* a run of letters x written as one element of a text, and its length:
\* with the five letters of a word it makes a text one short of the limit
PadRun == "<run of x>"
PadRunLen == PlainTextMaxLen - Len(WordSorry) - 1
\* .length
CharLen(s) == Len(s) + Cardinality({i \in 1..Len(s) : s[i] = PadRun}) * (PadRunLen - 1)

\* LooksLikePlainText without the test of the first character
LooksLikePlainTextAnyStart(js) ==
    /\ CharLen(js) < PlainTextMaxLen
    /\ (Includes(js, WordError) \/ Includes(js, WordSorry))

LooksLikePlainText(js) ==
    /\ ~StartsWith(js, <<"[">>)
    /\ ~StartsWith(js, <<"{">>)
    /\ CharLen(js) < PlainTextMaxLen
    /\ (Includes(js, WordError) \/ Includes(js, WordSorry))

\* group1.replace(/(?<!\\)\n/g, '\\n')
RECURSIVE EscapeNewlinesFrom(_, _)
EscapeNewlinesFrom(g, m) ==
    IF m > Len(g) THEN <<>>
    ELSE IF g[m] = NL /\ ~(m > 1 /\ g[m - 1] = BS)
         THEN <<BS, "n">> \o EscapeNewlinesFrom(g, m + 1)
         ELSE <<g[m]>> \o EscapeNewlinesFrom(g, m + 1)

\* EscapeNewlines replacing nothing
EscapeNewlinesNone(g) == g

EscapeNewlines(g) == EscapeNewlinesFrom(g, 1)

\* ((\\"|[^"])*?)" from position k: the position of the closing quote, 0 if
\* there is no match.  The quantifier is lazy: the closing quote is tried
\* first, then the alternative \" , then (on backtracking) [^"].
RECURSIVE DQClose(_, _)
DQClose(s, k) ==
    IF k > Len(s) THEN 0
    ELSE IF s[k] = Q THEN k
    ELSE IF s[k] = BS /\ k + 1 <= Len(s) /\ s[k + 1] = Q THEN
        LET r == DQClose(s, k + 2) IN IF r # 0 THEN r ELSE DQClose(s, k + 1)
    ELSE DQClose(s, k + 1)

\* ([^']*)' from position k
RECURSIVE SQClose(_, _)
SQClose(s, k) ==
    IF k > Len(s) THEN 0
    ELSE IF s[k] = "'" THEN k
    ELSE SQClose(s, k + 1)

\* .replace(/:\s*"((\\"|[^"])*?)"/g, ...) scanning from position p
RECURSIVE RepairDQFrom(_, _)
RepairDQFrom(s, p) ==
    IF p > Len(s) THEN <<>>
    ELSE LET j == SkipWs(s, p + 1)
             e == IF s[p] = ":" /\ j <= Len(s) /\ s[j] = Q THEN DQClose(s, j + 1) ELSE 0
         IN
         IF e # 0
         THEN <<":", SP, Q>> \o EscapeNewlines(SubSeq(s, j + 1, e - 1)) \o <<Q>>
                \o RepairDQFrom(s, e + 1)
         ELSE <<s[p]>> \o RepairDQFrom(s, p + 1)

\* .replace(/:\s*'([^']*)'/g, ...) scanning from position p
RECURSIVE RepairSQFrom(_, _)
RepairSQFrom(s, p) ==
    IF p > Len(s) THEN <<>>
    ELSE LET j == SkipWs(s, p + 1)
             e == IF s[p] = ":" /\ j <= Len(s) /\ s[j] = "'" THEN SQClose(s, j + 1) ELSE 0
         IN
         IF e # 0
         THEN <<":", SP, "'">> \o EscapeNewlines(SubSeq(s, j + 1, e - 1)) \o <<"'">>
                \o RepairSQFrom(s, e + 1)
         ELSE <<s[p]>> \o RepairSQFrom(s, p + 1)

CleanString(js) == RepairSQFrom(RepairDQFrom(js, 1), 1)

Returned(v) == [threw |-> FALSE, val |-> v]
Thrown == [threw |-> TRUE, val |-> <<>>]

\* ParseCleaned without its try / catch
ParseCleanedUnguarded(js) ==
    LET p2 == JSONparse(CleanString(js)) IN
    IF p2.ok THEN Returned(p2.val) ELSE Thrown

\* the inner try / catch: parse of the cleaned string, null when it throws
ParseCleaned(js) ==
    LET p2 == JSONparse(CleanString(js)) IN
    IF p2.ok THEN Returned(p2.val) ELSE Returned(NullV)

extractAndParseJson(rawString) ==
    IF rawString = NullRaw \/ rawString = <<>> THEN Returned(NullV)
    ELSE LET jsonString == StripFences(rawString) IN
         IF LooksLikePlainText(jsonString) THEN Returned(NullV)
         ELSE LET p1 == JSONparse(jsonString) IN
              IF p1.ok THEN Returned(p1.val) ELSE ParseCleaned(jsonString)

\* the texts extractAndParseJson hands to JSON.parse, in order
ParseAttempts(rawString) ==
    IF rawString = NullRaw \/ rawString = <<>> THEN <<>>
    ELSE LET jsonString == StripFences(rawString) IN
         IF LooksLikePlainText(jsonString) THEN <<>>
         ELSE IF JSONparse(jsonString).ok THEN <<jsonString>>
         ELSE <<jsonString, CleanString(jsonString)>>

(***************************************************************************)
(* Texts given to extractAndParseJson                                      *)
(***************************************************************************)
\* the largest number of elements of a generated array
MaxElems == 2

Str(b) == <<Q>> \o b \o <<Q>>

\* contents of quoted strings: plain, with a literal line break, with an
\* escaped line break, ending in a colon, ending in an escaped backslash,
\* holding a code-fence marker at a line end, refusal wording
StrBodies ==
    { <<"a">>, <<"x", NL, "y">>, <<"x", BS, "n", "y">>, <<"a", ":">>,
      <<BS, BS>>, <<BT, BT, BT, NL, "a">>, WordSorry }

Scalars == {<<"0">>, <<"1">>, LitFalse, NullV} \cup {Str(b) : b \in StrBodies}

\* white space put after a separating comma
Seps == {<<>>, <<NL>>}

RECURSIVE JoinWith(_, _)
JoinWith(vs, sep) ==
    IF Len(vs) = 0 THEN <<>>
    ELSE IF Len(vs) = 1 THEN vs[1]
    ELSE vs[1] \o <<",">> \o sep \o JoinWith(Tail(vs), sep)

Arrays(S) ==
    { <<"[">> \o JoinWith(vs, <<>>) \o <<"]">> :
        vs \in UNION {[1..n -> S] : n \in 0..MaxElems} }

Member(k, v) == Str(<<k>>) \o <<":">> \o v

Objects(S) ==
    { <<"{">> \o Member("k", v) \o <<"}">> : v \in S }
    \cup { <<"{">> \o Member("k", vw[1]) \o <<",">> \o sep \o Member("j", vw[2]) \o <<"}">> :
             vw \in S \X S, sep \in Seps }

Nested ==
    { <<"[">> \o o \o <<"]">> : o \in Objects(Scalars) }
    \cup { <<"{">> \o Member("k", <<"[">> \o v \o <<"]">>) \o <<",">> \o sep
             \o Member("j", w) \o <<"}">> :
             v \in Scalars, w \in Scalars, sep \in Seps }

FenceOpenUpper == <<BT, BT, BT, "J", "S", "O", "N">>
Fenced(t) == FenceOpen \o <<NL>> \o t \o <<NL>> \o FenceClose

OtherTexts ==
    { NullRaw, <<>>, <<SP>>,
      <<"[", "{", Q, "a", Q, ":", "1", ",", "]">>,
      WordSorry, <<"a", SP>> \o WordError, Str(WordError),
      <<"{", Q, "e", Q, ":", "1">>,
      <<SP, "[", "1", "]", NL>>,
      Fenced(<<"[", "1", "]">>),
      FenceOpenUpper \o <<NL, "[", "1", "]", NL>> \o FenceClose,
      <<"[", "1", "]", NL>> \o FenceClose \o <<NL, "a">>,
      <<SP, NL>> \o Fenced(<<"[", "1", "]">>),
      Fenced(Fenced(<<"[", "1", "]">>)),
      <<"a", NL>> \o FenceOpen \o <<NL, "[", "1", "]">>,
      <<"[", Q, "a", SP>> \o FenceOpen \o <<Q, "]">>,
      <<"{", "'", "k", "'", ":", SP, "'", "x", NL, "y", "'", "}">>,
      <<"{", Q, "k", ":", Q, ":", Q, "x", NL, "y", Q, "}">>,
      <<"{", Q, "k", Q, ":", Q, "x", CR, NL, "y", Q, "}">>,
      <<"{", Q, "k", NL, "j", Q, ":", "1", "}">>,
      <<"{", Q, "k", Q, ":", Q, "x", BS, Q, "y", NL, Q, "}">> }

\* refusal wording padded to one character less than the length limit of
\* the plain-text heuristic, and to the limit
LongTexts == {WordSorry \o <<PadRun>>, WordSorry \o <<PadRun, "x">>}

ExtractInputs ==
    Scalars \cup Arrays(Scalars) \cup Objects(Scalars) \cup Nested \cup OtherTexts
    \cup LongTexts

Pending == [threw |-> FALSE, val |-> <<"<pending>">>]

\* JSON.parse called outside any try block
ParseOrThrow(t) == LET p == JSONparse(t) IN IF p.ok THEN Returned(p.val) ELSE Thrown

(***************************************************************************)
(* The quoted spans of a text, as a JSON scanner sees them, and the text   *)
(* with the literal line breaks inside them escaped.                       *)
(***************************************************************************)
RECURSIVE JStrClose(_, _)
JStrClose(s, k) ==
    IF k > Len(s) THEN 0
    ELSE IF s[k] = Q THEN k
    ELSE IF s[k] = BS THEN JStrClose(s, k + 2)
    ELSE JStrClose(s, k + 1)

\* prev is the last character outside strings and white space before the span
RECURSIVE SpansFrom(_, _, _)
SpansFrom(s, i, last) ==
    IF i > Len(s) THEN {}
    ELSE IF s[i] = Q THEN
        LET c == JStrClose(s, i + 1) IN
        IF c = 0 THEN {[open |-> i, close |-> Len(s) + 1, prev |-> last]}
        ELSE {[open |-> i, close |-> c, prev |-> last]} \cup SpansFrom(s, c + 1, Q)
    ELSE IF s[i] \in WhiteSpace THEN SpansFrom(s, i + 1, last)
    ELSE SpansFrom(s, i + 1, s[i])

Spans(s) == SpansFrom(s, 1, "")
Inside(sp) == (sp.open + 1)..(sp.close - 1)
HasBreak(s, sp) == \E k \in Inside(sp) : s[k] = NL
IsMemberValue(sp) == sp.prev = ":"
IsKey(s, sp) == LET n == SkipWs(s, sp.close + 1) IN n <= Len(s) /\ s[n] = ":"

RECURSIVE PreEscapeFrom(_, _, _)
PreEscapeFrom(s, i, inside) ==
    IF i > Len(s) THEN <<>>
    ELSE IF s[i] = NL /\ i \in inside THEN <<BS, "n">> \o PreEscapeFrom(s, i + 1, inside)
    ELSE <<s[i]>> \o PreEscapeFrom(s, i + 1, inside)

PreEscape(s) == PreEscapeFrom(s, 1, UNION {Inside(sp) : sp \in Spans(s)})

(***************************************************************************)
(* callGemini: the Gateway call                                            *)
(***************************************************************************)
\* the largest number of candidates in a response envelope
MaxCandidates == 2

Contexts ==
    { "step-by-step guide", "rank and summarize papers", "methodology",
      "research gap analysis", "pros and cons" }

GoodArrayText == <<"[", "1", "]">>
ZeroText == <<"0">>
TruncatedText == <<"[", "1", ",">>

\* candidate.content?.parts?.[0]?.text: NullRaw when it is missing
CandidateTexts == {NullRaw, <<>>, GoodArrayText, TruncatedText}
FinishReasons == {"", "STOP", "MAX_TOKENS"}
Candidates == [finishReason : FinishReasons, text : CandidateTexts]

\* what axios.post yields: a transport failure (network error, timeout,
\* non-2xx status), or a response whose data is missing, or an envelope
TransportError(kind) ==
    [transport |-> kind, data |-> FALSE, blockReason |-> "",
     hasCandidates |-> FALSE, candidates |-> <<>>]
NoData ==
    [transport |-> "ok", data |-> FALSE, blockReason |-> "",
     hasCandidates |-> FALSE, candidates |-> <<>>]
Envelope(block, cands) ==
    [transport |-> "ok", data |-> TRUE, blockReason |-> block,
     hasCandidates |-> TRUE, candidates |-> cands]
EnvelopeNoCandidates(block) ==
    [transport |-> "ok", data |-> TRUE, blockReason |-> block,
     hasCandidates |-> FALSE, candidates |-> <<>>]

GatewayResponses ==
    {TransportError(k) : k \in {"network", "timeout"}}
    \cup {NoData}
    \cup {EnvelopeNoCandidates(b) : b \in {"", "SAFETY"}}
    \cup {Envelope(b, cs) : b \in {"", "SAFETY"},
                            cs \in UNION {[1..n -> Candidates] : n \in 0..MaxCandidates}}

\* an error with its message, and a returned text
GThrow(reason) == [threw |-> TRUE, text |-> NullRaw, msg |-> <<reason>>]
GReturn(t) == [threw |-> FALSE, text |-> t, msg |-> <<>>]

\* ResponseChecks without the promptFeedback.blockReason check
ResponseChecksIgnoringBlock(resp) ==
    IF resp.transport # "ok" THEN GThrow(resp.transport)
    ELSE IF ~resp.data THEN GThrow("Empty response from Gemini API")
    ELSE IF ~resp.hasCandidates \/ Len(resp.candidates) = 0
         THEN GThrow("No response generated by AI. Reason: UNKNOWN")
    ELSE LET candidate == resp.candidates[1] IN
         IF candidate.text = NullRaw \/ candidate.text = <<>>
         THEN GThrow("Invalid response structure from Gemini API (missing text)")
         ELSE GReturn(candidate.text)

\* ResponseChecks raising on a finish reason other than STOP
ResponseChecksStrictFinish(resp) ==
    IF resp.transport # "ok" THEN GThrow(resp.transport)
    ELSE IF ~resp.data THEN GThrow("Empty response from Gemini API")
    ELSE IF resp.blockReason # ""
         THEN [GThrow("AI request blocked due to safety settings: ")
                    EXCEPT !.msg = @ \o <<resp.blockReason>>]
    ELSE IF ~resp.hasCandidates \/ Len(resp.candidates) = 0
         THEN GThrow("No response generated by AI. Reason: UNKNOWN")
    ELSE LET candidate == resp.candidates[1] IN
         IF candidate.finishReason # "" /\ candidate.finishReason # "STOP"
         THEN GThrow("Output might be incomplete")
         ELSE IF candidate.text = NullRaw \/ candidate.text = <<>>
         THEN GThrow("Invalid response structure from Gemini API (missing text)")
         ELSE GReturn(candidate.text)

\* the body of the try block: the request and the checks of the response
ResponseChecks(resp) ==
    IF resp.transport # "ok" THEN GThrow(resp.transport)
    ELSE IF ~resp.data THEN GThrow("Empty response from Gemini API")
    ELSE IF resp.blockReason # ""
         THEN [GThrow("AI request blocked due to safety settings: ")
                    EXCEPT !.msg = @ \o <<resp.blockReason>>]
    ELSE IF ~resp.hasCandidates \/ Len(resp.candidates) = 0
         THEN GThrow("No response generated by AI. Reason: UNKNOWN")
    ELSE LET candidate == resp.candidates[1] IN
         \* a finishReason other than STOP is logged only
         IF candidate.text = NullRaw \/ candidate.text = <<>>
         THEN GThrow("Invalid response structure from Gemini API (missing text)")
         ELSE GReturn(candidate.text)

FailedMessage(context) == <<"Failed to get response from AI for ", context, ".">>

\* callGemini with a catch block that rethrows the error it caught
callGeminiRethrow(resp, context) == ResponseChecks(resp)

\* the catch block rethrows every error under one message
callGemini(resp, context) ==
    LET r == ResponseChecks(resp) IN
    IF r.threw THEN [threw |-> TRUE, text |-> NullRaw, msg |-> FailedMessage(context)]
    ELSE r

GPending == [threw |-> FALSE, text |-> NullRaw, msg |-> <<"<pending>">>]

(***************************************************************************)
(* Paper provider adapters and fetchRelatedPapers                          *)
(***************************************************************************)
\* the largest number of records in a provider response
MaxPapers == 3

Providers == <<"Semantic Scholar", "OpenAlex", "CORE">>

\* OrElse without the default
OrElseNone(v, d) == v

\* value || default
OrElse(v, d) == IF v = "" THEN d ELSE v

RECURSIVE JoinStrings(_, _)
JoinStrings(ws, sep) ==
    IF Len(ws) = 0 THEN ""
    ELSE IF Len(ws) = 1 THEN ws[1]
    ELSE ws[1] \o sep \o JoinStrings(Tail(ws), sep)

\* a count that is absent is <<>>, a count n is <<n>>
CountOrZero(c) == IF c = <<>> \/ c[1] = 0 THEN 0 ELSE c[1]

\* invertedIndex is a sequence of <<word, positions>> in key order: the
\* word of the last pair holding a position is the word of that position
InvertedPositions(ix) == UNION {{ix[k][2][m] : m \in 1..Len(ix[k][2])} : k \in 1..Len(ix)}
WordAt(ix, pos) ==
    LET ks == {k \in 1..Len(ix) : \E m \in 1..Len(ix[k][2]) : ix[k][2][m] = pos}
    IN  ix[CHOOSE k \in ks : \A o \in ks : o <= k][1]

\* WordsInOrder with the positions compared as strings ("10" before "2")
LexKey(n) == IF n < 10 THEN n * 100 ELSE (n \div 10) * 100 + (n % 10) + 1
RECURSIVE WordsInLexOrder(_, _)
WordsInLexOrder(ix, ps) ==
    IF ps = {} THEN <<>>
    ELSE LET lo == CHOOSE p \in ps : \A q \in ps : LexKey(p) <= LexKey(q)
         IN  <<WordAt(ix, lo)>> \o WordsInLexOrder(ix, ps \ {lo})

RECURSIVE WordsInOrder(_, _)
WordsInOrder(ix, ps) ==
    IF ps = {} THEN <<>>
    ELSE LET lo == Min(ps) IN <<WordAt(ix, lo)>> \o WordsInOrder(ix, ps \ {lo})

invertAbstract(ix) == JoinStrings(WordsInOrder(ix, InvertedPositions(ix)), " ")

\* .filter(Boolean)
RECURSIVE SelectNonEmpty(_)
SelectNonEmpty(ws) ==
    IF Len(ws) = 0 THEN <<>>
    ELSE (IF ws[1] = "" THEN <<>> ELSE <<ws[1]>>) \o SelectNonEmpty(Tail(ws))

\* the record mappers of the three adapters; an absent field is "" (or
\* <<>> for a count or a list, hasIndex = FALSE for an inverted index)
PaperFromSemanticScholar(r) ==
    [title |-> OrElse(r.title, "Untitled"),
     url |-> r.url,
     paperLink |-> r.url,
     abstract |-> OrElse(r.abstract, "No abstract available"),
     citationCount |-> CountOrZero(r.count),
     authors |-> OrElse(JoinStrings(r.authors, ", "), "Unknown authors")]

PaperFromOpenAlex(r) ==
    [title |-> OrElse(r.title, "Untitled"),
     url |-> IF r.id = <<>> THEN "" ELSE "https://openalex.org/" \o r.id[Len(r.id)],
     paperLink |-> OrElse(r.url, r.pdf),
     abstract |-> IF r.hasIndex THEN invertAbstract(r.index) ELSE "No abstract available",
     citationCount |-> CountOrZero(r.count),
     authors |-> OrElse(JoinStrings(SelectNonEmpty(r.authors), ", "), "Unknown authors")]

PaperFromCORE(r) ==
    [title |-> OrElse(r.title, "Untitled"),
     url |-> IF r.doi # "" THEN "https://doi.org/" \o r.doi ELSE r.url,
     paperLink |-> IF r.url # "" THEN r.url
                   ELSE IF r.doi # "" THEN "https://doi.org/" \o r.doi ELSE "",
     abstract |-> OrElse(r.abstract, "No abstract available"),
     citationCount |-> IF r.count = <<>> THEN 0 ELSE r.count[1],
     authors |-> OrElse(JoinStrings(r.authors, ", "), "Unknown authors")]

PaperFrom(name, r) ==
    CASE name = "Semantic Scholar" -> PaperFromSemanticScholar(r)
      [] name = "OpenAlex" -> PaperFromOpenAlex(r)
      [] name = "CORE" -> PaperFromCORE(r)

\* provider records: a complete one and one with every field absent
RawRecord(name, full) ==
    [title |-> IF full THEN name \o " paper" ELSE "",
     url |-> IF full THEN "https://example.org/" \o name ELSE "",
     pdf |-> "",
     doi |-> "",
     id |-> IF full THEN <<"https:", "", "openalex.org", "W1">> ELSE <<>>,
     abstract |-> IF full THEN "quick fox" ELSE "",
     hasIndex |-> full,
     index |-> IF full THEN << <<"fox", <<1>> >>, <<"quick", <<0>> >> >> ELSE <<>>,
     count |-> IF full THEN <<7>> ELSE <<>>,
     authors |-> IF full THEN <<"Ada", "Bob">> ELSE <<>>]

RawList(name, n) == [k \in 1..n |-> RawRecord(name, k % 2 = 1)]

\* what a provider request yields: an axios failure (no response, or an
\* error status such as 429), a body whose list is missing, or a list of
\* records; "no key" is CORE with no API key configured (no request made)
ProviderResponse(kind, name, n) == [kind |-> kind, items |-> RawList(name, n)]

ProviderFailureKinds == {"network", "http429", "invalid"}

ProviderResponses(name) ==
    {ProviderResponse(k, name, 0) : k \in ProviderFailureKinds}
    \cup {ProviderResponse("ok", name, n) : n \in 0..MaxPapers}
    \cup (IF name = "CORE" THEN {ProviderResponse("no key", name, 0)} ELSE {})

\* the provider responses drawn inside a run of the whole pipeline
PipelineProviderResponses(name) ==
    {ProviderResponse("network", name, 0)}
    \cup {ProviderResponse("ok", name, n) : n \in {0, MaxPapers}}

AThrow == [threw |-> TRUE, papers |-> <<>>]
AReturn(ps) == [threw |-> FALSE, papers |-> ps]

\* fetchFromSemanticScholar / fetchFromOpenAlex / fetchFromCORE
Adapter(name, resp) ==
    IF resp.kind = "no key" THEN AReturn(<<>>)
    ELSE IF resp.kind # "ok" THEN AThrow
    ELSE AReturn([k \in 1..Len(resp.items) |-> PaperFrom(name, resp.items[k])])

\* TryAdapter without the try / catch around the adapter call
TryAdapterNoCatch(name, resp) == Adapter(name, resp)

\* the try / catch in the loop of fetchRelatedPapers: a failure is logged
\* and the loop goes on as after an empty result
TryAdapter(name, resp) ==
    LET r == Adapter(name, resp) IN
    IF r.threw THEN AReturn(<<>>) ELSE r

\* ReturnsEarly never leaving the loop
ReturnsEarlyNever(results) == FALSE

\* ReturnsEarly leaving the loop on an empty list too
ReturnsEarlyOnEmpty(results) == Len(results) >= 0

\* if (results.length > 0) return results
ReturnsEarly(results) == Len(results) > 0

(***************************************************************************)
(* generateThesisRoadmap                                                   *)
(***************************************************************************)
Topics == {"effect of remote work on productivity", "ai in education"}

\* JSON.stringify of the error markers of the three guarded stages.  The
\* member name and the message are runs of letters, spaces and a full stop,
\* each written as one element: the texts start with a bracket or brace,
\* so no operator applied to them looks inside such a run.
RankErrorMarker ==
    <<"[", "{", Q, "error", Q, ":", Q,
      "Failed to prepare data for research ranking.", Q, "}", "]">>

GapsErrorMarker ==
    <<"{", Q, "error", Q, ":", Q,
      "Failed to prepare data for research gap analysis.", Q, "}">>

ProsConsErrorMarker ==
    <<"{", Q, "error", Q, ":", Q,
      "Failed to prepare data for pros and cons analysis.", Q, "}">>

\* the responses of the generative text service drawn inside a run
PipelineTexts == {GoodArrayText, ZeroText, TruncatedText}

PipelineGatewayResponses ==
    {TransportError("timeout"), Envelope("SAFETY", <<[finishReason |-> "STOP", text |-> GoodArrayText]>>)}
    \cup {Envelope("", <<[finishReason |-> "STOP", text |-> t]>>) : t \in PipelineTexts}

\* UnguardedStage returning null instead of rethrowing
UnguardedStageSwallow(resp, context) ==
    LET r == callGemini(resp, context) IN
    IF r.threw THEN GReturn(NullRaw) ELSE r

\* UnguardedStage parsing its text at once and failing when nothing parses
UnguardedStageParsing(resp, context) ==
    LET r == callGemini(resp, context) IN
    IF ~r.threw /\ extractAndParseJson(r.text).val = NullV
    THEN [threw |-> TRUE, text |-> NullRaw, msg |-> <<"unparseable">>]
    ELSE r

\* stages 1 and 4: the call is awaited directly in the try block of
\* generateThesisRoadmap
UnguardedStage(resp, context) == callGemini(resp, context)

\* GuardedStage returning null, not the error marker, when the call fails
GuardedStageNullOnFailure(resp, context, marker) ==
    LET r == callGemini(resp, context) IN
    IF r.threw THEN GReturn(NullRaw) ELSE r

\* GuardedStage without its try / catch
GuardedStageNoCatch(resp, context, marker) == callGemini(resp, context)

\* stages 3, 5 and 6: the helper catches the failure and returns the
\* stringified error marker
GuardedStage(resp, context, marker) ==
    LET r == callGemini(resp, context) IN
    IF r.threw THEN GReturn(marker) ELSE r

\* !value
Falsy(v) == v \in {NullV, <<"0">>, LitFalse, <<Q, Q>>}

NoRaws ==
    [stepByStep |-> NullRaw, relatedPapers |-> NullRaw, methodology |-> NullRaw,
     researchGapAnalysis |-> NullRaw, prosAndCons |-> NullRaw]

Sections == <<"stepByStep", "relatedPapers", "methodology", "researchGapAnalysis", "prosAndCons">>

SectionLabel(f) ==
    CASE f = "stepByStep" -> "step-by-step guide"
      [] f = "relatedPapers" -> "ranked papers"
      [] f = "methodology" -> "methodology"
      [] f = "researchGapAnalysis" -> "research gaps"
      [] f = "prosAndCons" -> "pros and cons"

Parsed(raws) == [f \in DOMAIN raws |-> extractAndParseJson(raws[f])]

\* the five texts in the order the extractor is called on them, in the try
\* block and in the catch block alike
RawsInOrder(rs) == [k \in 1..Len(Sections) |-> rs[Sections[k]]]

NoResult ==
    [thesisDescription |-> "", stepByStep |-> <<>>, relatedPapers |-> <<>>,
     methodology |-> <<>>, researchGapAnalysis |-> <<>>, prosAndCons |-> <<>>,
     hasError |-> FALSE, error |-> <<>>]

\* ResultOf with the topic left out of the object
ResultOfTopicLost(topic, parsed, hasError, error) ==
    [thesisDescription |-> "",
     stepByStep |-> parsed.stepByStep.val,
     relatedPapers |-> parsed.relatedPapers.val,
     methodology |-> parsed.methodology.val,
     researchGapAnalysis |-> parsed.researchGapAnalysis.val,
     prosAndCons |-> parsed.prosAndCons.val,
     hasError |-> hasError,
     error |-> error]

ResultOf(topic, parsed, hasError, error) ==
    [thesisDescription |-> topic,
     stepByStep |-> parsed.stepByStep.val,
     relatedPapers |-> parsed.relatedPapers.val,
     methodology |-> parsed.methodology.val,
     researchGapAnalysis |-> parsed.researchGapAnalysis.val,
     prosAndCons |-> parsed.prosAndCons.val,
     hasError |-> hasError,
     error |-> error]

Resolved(r) == [state |-> "resolved", result |-> r]
Rejected == [state |-> "rejected", result |-> NoResult]
PendingPromise == [state |-> "pending", result |-> NoResult]

\* CatchTopLevel letting the error escape
CatchTopLevelNone(topic, raws, msg) == Rejected

\* CatchTopLevel returning null fields without parsing the captured texts
CatchTopLevelAllNull(topic, raws, msg) ==
    Resolved(ResultOf(topic, Parsed(NoRaws), TRUE,
                      <<"Failed to generate thesis roadmap: ">> \o msg))

\* the catch block of generateThesisRoadmap
CatchTopLevel(topic, raws, msg) ==
    LET parsed == Parsed(raws) IN
    IF \E f \in DOMAIN parsed : parsed[f].threw THEN Rejected
    ELSE Resolved(ResultOf(topic, parsed, TRUE,
                           <<"Failed to generate thesis roadmap: ">> \o msg))

\* errorDetails before the join: the labels of the sections whose parsed
\* value is falsy, in the order of Sections
RECURSIVE FailedSections(_, _)
FailedSections(parsed, k) ==
    IF k > Len(Sections) THEN <<>>
    ELSE (IF Falsy(parsed[Sections[k]].val) THEN <<SectionLabel(Sections[k])>> ELSE <<>>)
            \o FailedSections(parsed, k + 1)

\* the end of the try block: parse the five raw texts and aggregate
ParseAndAggregate(topic, raws) ==
    LET parsed == Parsed(raws)
        failed == FailedSections(parsed, 1)
    IN
    \* an error thrown by the extractor lands in the catch block, which
    \* runs the extractor on the same texts: it is thrown again there
    IF \E f \in DOMAIN parsed : parsed[f].threw
    THEN Rejected
    ELSE IF failed # <<>>
    THEN Resolved(ResultOf(topic, parsed, TRUE,
            <<"Failed to parse the following sections from the AI: ",
              JoinStrings(failed, ", "),
              ". The structure might be invalid.">>))
    ELSE Resolved(ResultOf(topic, parsed, FALSE, <<>>))

FPending == [threw |-> FALSE, papers |-> <<"<pending>">>]

(***************************************************************************)
(* Concurrent invocations of generateThesisRoadmap                         *)
(***************************************************************************)
Requests == {1, 2}
TopicOf(i) ==
    IF i = 1 THEN "effect of remote work on productivity" ELSE "ai in education"

\* the external calls of one invocation, in program order
CallOrder ==
    <<"step-by-step guide", "Semantic Scholar", "OpenAlex", "CORE",
      "rank and summarize papers", "methodology", "research gap analysis",
      "pros and cons">>
CallRank(c) == CHOOSE k \in 1..Len(CallOrder) : CallOrder[k] = c
AdapterNames == {"Semantic Scholar", "OpenAlex", "CORE"}
UnguardedContexts == {"step-by-step guide", "methodology"}

FieldOf(c) ==
    CASE c = "step-by-step guide" -> "stepByStep"
      [] c = "rank and summarize papers" -> "relatedPapers"
      [] c = "methodology" -> "methodology"
      [] c = "research gap analysis" -> "researchGapAnalysis"
      [] c = "pros and cons" -> "prosAndCons"

MarkerOf(c) ==
    CASE c = "rank and summarize papers" -> RankErrorMarker
      [] c = "research gap analysis" -> GapsErrorMarker
      [] c = "pros and cons" -> ProsConsErrorMarker
      [] OTHER -> <<>>

\* what the awaited call of a stage gives the try block
StageResult(c, resp) ==
    IF c \in UnguardedContexts THEN UnguardedStage(resp, c)
    ELSE GuardedStage(resp, c, MarkerOf(c))

\* LocalsSlot with the variables declared once, at module level
LocalsSharedSlot(i) == Min(Requests)

\* the let declarations at the top of an invocation: each invocation has
\* its own
LocalsSlot(i) == i

NewLocals == [raws |-> NoRaws, relatedPapers |-> <<>>]
MemIdle == [i \in Requests |-> NewLocals]
NoResp == [kind |-> "none"]
CtlIdle == [i \in Requests |-> [inflight |-> {}, trace |-> <<>>, promise |-> PendingPromise]]

\* the responses the outside world gives request i: they differ between
\* the requests
TextFor(i) == <<"[", ToString(i), "]">>
GatewayResponsesFor(i) ==
    {TransportError("timeout"), Envelope("", <<[finishReason |-> "STOP", text |-> TextFor(i)]>>)}
ProviderResponsesFor(i, name) ==
    {ProviderResponse("network", name, 0), ProviderResponse("ok", name, i)}

\* the calls started once call c has completed (c = "" at the start of
\* the invocation); both awaited at once, as Promise.all would
CallsAfterParallel(c, failed, papers) ==
    CASE c = "" -> {"step-by-step guide"}
      [] c = "step-by-step guide" -> IF failed THEN {} ELSE {"Semantic Scholar"}
      [] c = "Semantic Scholar" ->
            IF ReturnsEarly(papers) THEN {"rank and summarize papers"} ELSE {"OpenAlex"}
      [] c = "OpenAlex" ->
            IF ReturnsEarly(papers) THEN {"rank and summarize papers"} ELSE {"CORE"}
      [] c = "CORE" -> {"rank and summarize papers"}
      [] c = "rank and summarize papers" -> {"methodology"}
      [] c = "methodology" ->
            IF failed THEN {} ELSE {"research gap analysis", "pros and cons"}
      [] c = "research gap analysis" -> {}
      [] c = "pros and cons" -> {}

\* the call started once call c has completed: the next await of the try
\* block, or of the loop of fetchRelatedPapers
CallsAfter(c, failed, papers) ==
    CASE c = "" -> {"step-by-step guide"}
      [] c = "step-by-step guide" -> IF failed THEN {} ELSE {"Semantic Scholar"}
      [] c = "Semantic Scholar" ->
            IF ReturnsEarly(papers) THEN {"rank and summarize papers"} ELSE {"OpenAlex"}
      [] c = "OpenAlex" ->
            IF ReturnsEarly(papers) THEN {"rank and summarize papers"} ELSE {"CORE"}
      [] c = "CORE" -> {"rank and summarize papers"}
      [] c = "rank and summarize papers" -> IF failed THEN {} ELSE {"methodology"}
      [] c = "methodology" -> IF failed THEN {} ELSE {"research gap analysis"}
      [] c = "research gap analysis" -> IF failed THEN {} ELSE {"pros and cons"}
      [] c = "pros and cons" -> {}

StartEvent(c, corpus) == [ev |-> "start", call |-> c, resp |-> NoResp, papers |-> corpus]
EndEvent(c, resp) == [ev |-> "end", call |-> c, resp |-> resp, papers |-> <<>>]

\* the start events of a set of at most two calls
StartsOf(cs, corpus) ==
    IF cs = {} THEN <<>>
    ELSE LET c == CHOOSE x \in cs : \A y \in cs : CallRank(x) <= CallRank(y) IN
         IF cs = {c} THEN <<StartEvent(c, corpus)>>
         ELSE <<StartEvent(c, corpus), StartEvent(CHOOSE y \in cs : y # c, corpus)>>

(***************************************************************************)
(* Inverted indexes and provider records given to the adapters             *)
(***************************************************************************)
\* the largest number of words in an abstract
MaxWords == 3

AbstractWords == {"quick", "fox"}
PositionPool == {0, 1, 2, 10, 11}

\* an abstract is a sequence of words, each at its own position; the
\* positions ascend along the text and may leave gaps
AbstractTexts == UNION {[1..n -> AbstractWords] : n \in 0..MaxWords}
PositionsFor(n) ==
    {ps \in [1..n -> PositionPool] : \A k \in 1..(n - 1) : ps[k] < ps[k + 1]}
WordsOf(text) == {text[k] : k \in 1..Len(text)}
KeyOrders(text) ==
    {ks \in [1..Cardinality(WordsOf(text)) -> WordsOf(text)] :
        \A j \in DOMAIN ks : \A k \in DOMAIN ks : ks[j] = ks[k] => j = k}

RECURSIVE PositionsFrom(_, _, _, _)
PositionsFrom(text, pos, w, m) ==
    IF m > Len(text) THEN <<>>
    ELSE (IF text[m] = w THEN <<pos[m]>> ELSE <<>>) \o PositionsFrom(text, pos, w, m + 1)

\* abstract_inverted_index of the text, its keys in the order keys
IndexOf(text, pos, keys) ==
    [k \in 1..Len(keys) |-> <<keys[k], PositionsFrom(text, pos, keys[k], 1)>>]

Reversed(ks) == [k \in 1..Len(ks) |-> ks[Len(ks) + 1 - k]]

InvPending == "<pending>"
InvIdle == [text |-> <<>>, pos |-> <<>>, keys |-> <<>>, out |-> InvPending, outReordered |-> InvPending]

\* the fields a provider's record can carry
SourceFields(name) ==
    CASE name = "Semantic Scholar" -> {"title", "url", "abstract", "count", "authors"}
      [] name = "OpenAlex" -> {"title", "id", "url", "pdf", "index", "count", "authors"}
      [] name = "CORE" -> {"title", "doi", "url", "abstract", "count", "authors"}

CitationCounts == {0, 7}

\* a provider record carrying the fields present, with the count c
RecordOf(present, c) ==
    [title |-> IF "title" \in present THEN "A title" ELSE "",
     url |-> IF "url" \in present THEN "https://example.org/p" ELSE "",
     pdf |-> IF "pdf" \in present THEN "https://example.org/p.pdf" ELSE "",
     doi |-> IF "doi" \in present THEN "10.1/x" ELSE "",
     id |-> IF "id" \in present THEN <<"https:", "", "openalex.org", "W1">> ELSE <<>>,
     abstract |-> IF "abstract" \in present THEN "quick fox" ELSE "",
     hasIndex |-> "index" \in present,
     index |-> IF "index" \in present THEN << <<"fox", <<1>> >>, <<"quick", <<0>> >> >> ELSE <<>>,
     count |-> IF "count" \in present THEN <<c>> ELSE <<>>,
     authors |-> IF "authors" \in present THEN <<"Ada", "Bob">> ELSE <<>>]

NoPaper ==
    [title |-> "<pending>", url |-> "", paperLink |-> "", abstract |-> "",
     citationCount |-> 0, authors |-> ""]
AdpIdle == [name |-> "", present |-> {}, count |-> 0, out |-> NoPaper]

\* no HTTP request is being handled
NoRequest == [kind |-> "none"]

VARIABLES
    xraw,    \* the text given to extractAndParseJson
    xres,    \* its result
    xresF,   \* the result on the same text wrapped in a code fence
    xresE,   \* JSON.parse of the same text with its line breaks pre-escaped
    xparses, \* the texts extractAndParseJson handed to JSON.parse
    gresp,   \* the response of the generative text service to one call
    gctx,    \* the context argument of that call
    gout,    \* what callGemini returned or threw
    entry,   \* the exported function that was called
    pc,      \* the await the call is at
    topic,   \* thesisDescription
    fidx,    \* the provider the loop of fetchRelatedPapers is at
    fetched, \* what fetchRelatedPapers returned or threw
    raws,    \* stepByStepRaw, rankedPapersRaw, methodologyRaw, ...
    relatedPapers,
    calls,   \* the external calls made so far, in order
    promise, \* the promise generateThesisRoadmap returned
    extracts, \* the texts generateThesisRoadmap handed to extractAndParseJson
    inv,     \* one call of invertAbstract: the index and the result
    adp,     \* one provider record and the paper an adapter makes of it
    ctl,     \* per concurrent request: calls in flight, events, promise
    mem,     \* the local variables of the invocations, by slot
    hreq,    \* the HTTP request a handler was called with
    hpc,     \* where the handler of that request is
    hlog,    \* what the handler did: responses, next(), calls, errors
    users    \* the documents of the users collection

xvars == <<xraw, xres, xresF, xresE, xparses>>
gvars == <<gresp, gctx, gout>>
pvars == <<entry, pc, topic, fidx, fetched, raws, relatedPapers, calls, promise, extracts>>
svars == <<inv, adp, ctl, mem>>
hvars == <<hreq, hpc, hlog, users>>
vars == <<xraw, xres, xresF, xresE, xparses, gresp, gctx, gout,
          entry, pc, topic, fidx, fetched, raws, relatedPapers, calls, promise, extracts,
          inv, adp, ctl, mem, hreq, hpc, hlog, users>>

HIdle == hreq = NoRequest /\ hpc = "idle" /\ hlog = <<>> /\ users = {}
SIdle == inv = InvIdle /\ adp = AdpIdle /\ ctl = CtlIdle /\ mem = MemIdle /\ HIdle
XIdle ==
    /\ xraw = NullRaw /\ xres = Pending /\ xresF = Pending /\ xresE = Pending
    /\ xparses = <<>>
GIdle == gresp = NoData /\ gctx = "" /\ gout = GPending
PIdle ==
    /\ entry = "none"
    /\ pc = "done"
    /\ topic = ""
    /\ fidx = 1
    /\ fetched = FPending
    /\ raws = NoRaws
    /\ relatedPapers = <<>>
    /\ calls = <<>>
    /\ promise = PendingPromise
    /\ extracts = <<>>

XInit ==
    /\ xraw \in ExtractInputs
    /\ xres = Pending
    /\ xresF = Pending
    /\ xresE = Pending
    /\ xparses = <<>>
    /\ GIdle
    /\ PIdle
    /\ SIdle

XExtract ==
    /\ xres = Pending
    /\ xres' = extractAndParseJson(xraw)
    /\ xparses' = ParseAttempts(xraw)
    /\ UNCHANGED <<xraw, xresF, xresE, gvars, pvars, svars, hvars>>

XExtractFenced ==
    /\ xresF = Pending
    /\ xraw # NullRaw
    /\ xresF' = extractAndParseJson(Fenced(xraw))
    /\ UNCHANGED <<xraw, xres, xresE, xparses, gvars, pvars, svars, hvars>>

XParsePreEscaped ==
    /\ xresE = Pending
    /\ xraw # NullRaw
    /\ xresE' = ParseOrThrow(PreEscape(xraw))
    /\ UNCHANGED <<xraw, xres, xresF, xparses, gvars, pvars, svars, hvars>>

XNext == XExtract \/ XExtractFenced \/ XParsePreEscaped

SpecExtract == XInit /\ [][XNext]_vars

(***************************************************************************)
(* One call of callGemini                                                  *)
(***************************************************************************)
GInit ==
    /\ gresp \in GatewayResponses
    /\ gctx \in Contexts
    /\ gout = GPending
    /\ XIdle
    /\ PIdle
    /\ SIdle

GCall ==
    /\ gout = GPending
    /\ gout' = callGemini(gresp, gctx)
    /\ UNCHANGED <<gresp, gctx, xvars, pvars, svars, hvars>>

GNext == GCall

SpecGateway == GInit /\ [][GNext]_vars
(***************************************************************************)
(* fetchRelatedPapers and generateThesisRoadmap, one action per await      *)
(***************************************************************************)
AdapterCall(name, resp, r) ==
    [fn |-> "adapter", name |-> name, kind |-> resp.kind,
     ok |-> ~Adapter(name, resp).threw, papers |-> r.papers]

\* logged: the message of the error raised inside the try block of
\* callGemini, which line 450 writes to the console
GeminiCall(context, resp, corpus) ==
    [fn |-> "callGemini", name |-> context,
     kind |-> IF callGemini(resp, context).threw THEN "failed" ELSE "ok",
     logged |-> ResponseChecks(resp).msg,
     ok |-> ~callGemini(resp, context).threw, papers |-> corpus]

ResponsesFor(name) ==
    IF entry = "fetchRelatedPapers" THEN ProviderResponses(name)
    ELSE PipelineProviderResponses(name)

\* FetchReturns with the list not kept for the later stages
FetchReturnsDropped(ps) ==
    /\ fetched' = AReturn(ps)
    /\ relatedPapers' = <<>>
    /\ pc' = IF entry = "fetchRelatedPapers" THEN "done" ELSE "rank"
    /\ UNCHANGED <<fidx, promise, extracts>>

\* fetchRelatedPapers returns ps: to its caller, or into the pipeline
FetchReturns(ps) ==
    /\ fetched' = AReturn(ps)
    /\ relatedPapers' = ps
    /\ pc' = IF entry = "fetchRelatedPapers" THEN "done" ELSE "rank"
    /\ UNCHANGED <<fidx, promise, extracts>>

\* an error escapes fetchRelatedPapers
FetchThrows ==
    /\ fetched' = AThrow
    /\ pc' = "done"
    /\ promise' = IF entry = "fetchRelatedPapers" THEN promise
                  ELSE CatchTopLevel(topic, raws, <<"adapter error">>)
    /\ extracts' = IF entry = "fetchRelatedPapers" THEN extracts ELSE RawsInOrder(raws)
    /\ UNCHANGED <<fidx, relatedPapers>>

\* one turn of the loop over the providers
FetchStep ==
    /\ pc = "fetch"
    /\ LET name == Providers[fidx] IN
       \E resp \in ResponsesFor(name) :
          LET r == TryAdapter(name, resp) IN
          /\ calls' = Append(calls, AdapterCall(name, resp, r))
          /\ IF r.threw THEN FetchThrows
             ELSE IF ReturnsEarly(r.papers) THEN FetchReturns(r.papers)
             ELSE IF fidx < Len(Providers)
                  THEN /\ fidx' = fidx + 1
                       /\ UNCHANGED <<pc, fetched, relatedPapers, promise, extracts>>
                  ELSE FetchReturns(<<>>)
    /\ UNCHANGED <<entry, topic, raws, xvars, gvars, svars, hvars>>

\* StageThrows awaiting the failed stage once more
StageThrowsRetry(r) ==
    /\ pc' = IF Len(calls) < Cardinality(Contexts) THEN pc ELSE "done"
    /\ promise' = IF Len(calls) < Cardinality(Contexts) THEN promise
                  ELSE CatchTopLevel(topic, raws, r.msg)
    /\ extracts' = IF Len(calls) < Cardinality(Contexts) THEN extracts
                   ELSE RawsInOrder(raws)
    /\ UNCHANGED raws

\* what follows a stage call: its text is kept and the next stage is
\* awaited, or its error lands in the catch block
StageThrows(r) ==
    /\ promise' = CatchTopLevel(topic, raws, r.msg)
    /\ extracts' = RawsInOrder(raws)
    /\ pc' = "done"
    /\ UNCHANGED raws

StageStepByStep ==
    /\ pc = "stepByStep"
    /\ \E resp \in PipelineGatewayResponses :
          LET r == UnguardedStage(resp, "step-by-step guide") IN
          /\ calls' = Append(calls, GeminiCall("step-by-step guide", resp, <<>>))
          /\ IF r.threw THEN StageThrows(r)
             ELSE /\ raws' = [raws EXCEPT !.stepByStep = r.text]
                  /\ pc' = "fetch"
                  /\ UNCHANGED <<promise, extracts>>
    /\ UNCHANGED <<entry, topic, fidx, fetched, relatedPapers, xvars, gvars, svars, hvars>>

StageRank ==
    /\ pc = "rank"
    /\ \E resp \in PipelineGatewayResponses :
          LET r == GuardedStage(resp, "rank and summarize papers", RankErrorMarker) IN
          /\ calls' = Append(calls, GeminiCall("rank and summarize papers", resp, relatedPapers))
          /\ IF r.threw THEN StageThrows(r)
             ELSE /\ raws' = [raws EXCEPT !.relatedPapers = r.text]
                  /\ pc' = "methodology"
                  /\ UNCHANGED <<promise, extracts>>
    /\ UNCHANGED <<entry, topic, fidx, fetched, relatedPapers, xvars, gvars, svars, hvars>>

StageMethodology ==
    /\ pc = "methodology"
    /\ \E resp \in PipelineGatewayResponses :
          LET r == UnguardedStage(resp, "methodology") IN
          /\ calls' = Append(calls, GeminiCall("methodology", resp, <<>>))
          /\ IF r.threw THEN StageThrows(r)
             ELSE /\ raws' = [raws EXCEPT !.methodology = r.text]
                  /\ pc' = "gaps"
                  /\ UNCHANGED <<promise, extracts>>
    /\ UNCHANGED <<entry, topic, fidx, fetched, relatedPapers, xvars, gvars, svars, hvars>>

StageGaps ==
    /\ pc = "gaps"
    /\ \E resp \in PipelineGatewayResponses :
          LET r == GuardedStage(resp, "research gap analysis", GapsErrorMarker) IN
          /\ calls' = Append(calls, GeminiCall("research gap analysis", resp, relatedPapers))
          /\ IF r.threw THEN StageThrows(r)
             ELSE /\ raws' = [raws EXCEPT !.researchGapAnalysis = r.text]
                  /\ pc' = "prosCons"
                  /\ UNCHANGED <<promise, extracts>>
    /\ UNCHANGED <<entry, topic, fidx, fetched, relatedPapers, xvars, gvars, svars, hvars>>

\* the last stage call, then the parse of all raw texts and the return
StageProsCons ==
    /\ pc = "prosCons"
    /\ \E resp \in PipelineGatewayResponses :
          LET r == GuardedStage(resp, "pros and cons", ProsConsErrorMarker) IN
          /\ calls' = Append(calls, GeminiCall("pros and cons", resp, relatedPapers))
          /\ IF r.threw THEN StageThrows(r)
             ELSE /\ raws' = [raws EXCEPT !.prosAndCons = r.text]
                  /\ pc' = "done"
                  /\ promise' = ParseAndAggregate(topic, raws')
                  /\ extracts' = RawsInOrder(raws')
    /\ UNCHANGED <<entry, topic, fidx, fetched, relatedPapers, xvars, gvars, svars, hvars>>

PInit(e, start) ==
    /\ entry = e
    /\ pc = start
    /\ topic \in Topics
    /\ fidx = 1
    /\ fetched = FPending
    /\ raws = NoRaws
    /\ relatedPapers = <<>>
    /\ calls = <<>>
    /\ promise = PendingPromise
    /\ extracts = <<>>
    /\ XIdle
    /\ GIdle
    /\ SIdle

Init == PInit("generateThesisRoadmap", "stepByStep")

Next ==
    \/ StageStepByStep
    \/ FetchStep
    \/ StageRank
    \/ StageMethodology
    \/ StageGaps
    \/ StageProsCons

Spec == Init /\ [][Next]_vars

\* fetchRelatedPapers called on its own
FInit == PInit("fetchRelatedPapers", "fetch")

FNext == FetchStep

SpecFetch == FInit /\ [][FNext]_vars

(***************************************************************************)
(* One call of invertAbstract                                              *)
(***************************************************************************)
IInit ==
    /\ \E text \in AbstractTexts : \E pos \in PositionsFor(Len(text)) :
       \E keys \in KeyOrders(text) :
          inv = [text |-> text, pos |-> pos, keys |-> keys,
                 out |-> InvPending, outReordered |-> InvPending]
    /\ adp = AdpIdle
    /\ ctl = CtlIdle
    /\ mem = MemIdle
    /\ HIdle
    /\ XIdle
    /\ GIdle
    /\ PIdle

IInvert ==
    /\ inv.out = InvPending
    /\ inv' = [inv EXCEPT !.out = invertAbstract(IndexOf(inv.text, inv.pos, inv.keys))]
    /\ UNCHANGED <<adp, ctl, mem, xvars, gvars, pvars, hvars>>

\* the same index with its keys in the opposite order
IInvertReordered ==
    /\ inv.outReordered = InvPending
    /\ inv' = [inv EXCEPT
                 !.outReordered = invertAbstract(IndexOf(inv.text, inv.pos, Reversed(inv.keys)))]
    /\ UNCHANGED <<adp, ctl, mem, xvars, gvars, pvars, hvars>>

INext == IInvert \/ IInvertReordered

SpecInvert == IInit /\ [][INext]_vars

(***************************************************************************)
(* One record mapped by an adapter                                         *)
(***************************************************************************)
AInit ==
    /\ \E name \in {Providers[k] : k \in 1..Len(Providers)} :
       \E present \in SUBSET SourceFields(name) : \E c \in CitationCounts :
          adp = [name |-> name, present |-> present, count |-> c, out |-> NoPaper]
    /\ inv = InvIdle
    /\ ctl = CtlIdle
    /\ mem = MemIdle
    /\ HIdle
    /\ XIdle
    /\ GIdle
    /\ PIdle

AMap ==
    /\ adp.out = NoPaper
    /\ adp' = [adp EXCEPT !.out = PaperFrom(adp.name, RecordOf(adp.present, adp.count))]
    /\ UNCHANGED <<inv, ctl, mem, xvars, gvars, pvars, hvars>>

ANext == AMap

SpecAdapter == AInit /\ [][ANext]_vars

(***************************************************************************)
(* Two invocations of generateThesisRoadmap in flight together: a step is  *)
(* one turn of the event loop, from the arrival of a response to the next  *)
(* await                                                                   *)
(***************************************************************************)
CInit == XIdle /\ GIdle /\ PIdle /\ SIdle

\* the invocation: its locals are declared and stage 1 is called
CBegin(i) ==
    /\ ctl[i].trace = <<>>
    /\ mem' = [mem EXCEPT ![LocalsSlot(i)] = NewLocals]
    /\ ctl' = [ctl EXCEPT ![i].inflight = CallsAfter("", FALSE, <<>>),
                          ![i].trace = StartsOf(CallsAfter("", FALSE, <<>>), <<>>)]
    /\ UNCHANGED <<inv, adp, xvars, gvars, pvars, hvars>>

\* a provider answers the adapter call of request i
CAdapterResponds(i) ==
    \E c \in ctl[i].inflight \cap AdapterNames : \E resp \in ProviderResponsesFor(i, c) :
        LET r == TryAdapter(c, resp)
            next == CallsAfter(c, r.threw, r.papers)
            leaves == "rank and summarize papers" \in next
            papers == IF ReturnsEarly(r.papers) THEN r.papers ELSE <<>>
        IN
        /\ mem' = IF leaves THEN [mem EXCEPT ![LocalsSlot(i)].relatedPapers = papers]
                  ELSE mem
        /\ ctl' = [ctl EXCEPT
                     ![i].inflight = (@ \ {c}) \cup next,
                     ![i].trace = @ \o <<EndEvent(c, resp)>>
                                    \o StartsOf(next, mem'[LocalsSlot(i)].relatedPapers)]
        /\ UNCHANGED <<inv, adp, xvars, gvars, pvars, hvars>>

\* the generative text service answers the stage call of request i
CGatewayResponds(i) ==
    \E c \in ctl[i].inflight \ AdapterNames : \E resp \in GatewayResponsesFor(i) :
        LET r == StageResult(c, resp)
            next == CallsAfter(c, r.threw, <<>>)
            kept == IF r.threw THEN mem
                    ELSE [mem EXCEPT ![LocalsSlot(i)].raws[FieldOf(c)] = r.text]
        IN
        /\ mem' = kept
        /\ ctl' = [ctl EXCEPT
                     ![i].inflight = (@ \ {c}) \cup next,
                     ![i].trace = @ \o <<EndEvent(c, resp)>>
                                    \o StartsOf(next, kept[LocalsSlot(i)].relatedPapers),
                     ![i].promise =
                         IF r.threw
                         THEN CatchTopLevel(TopicOf(i), mem[LocalsSlot(i)].raws, r.msg)
                         ELSE IF c = "pros and cons"
                         THEN ParseAndAggregate(TopicOf(i), kept[LocalsSlot(i)].raws)
                         ELSE @]
        /\ UNCHANGED <<inv, adp, xvars, gvars, pvars, hvars>>

CNext == \E i \in Requests : CBegin(i) \/ CAdapterResponds(i) \/ CGatewayResponds(i)

SpecConcurrent == CInit /\ [][CNext]_vars

(***************************************************************************)
(* createThesisRoadmap (src/src/controllers/thesisController.ts): the     *)
(* handler of POST /api/thesis/generate, around one run of the pipeline    *)
(***************************************************************************)
\* req.body.thesisDescription: absent, the empty string, or a topic
NoDescription == "<undefined>"
Descriptions == {NoDescription, "", "ai in education"}
RoadmapRequest(d) == [kind |-> "POST /api/thesis/generate", thesisDescription |-> d]

\* entries of the handler log: res.status(s).json(b), and the call of
\* generateThesisRoadmap(t)
Response(status, body) == [ev |-> "response", status |-> status, body |-> body]
Invocation(t) == [ev |-> "generateThesisRoadmap", status |-> 0, body |-> t]

KInit ==
    /\ hreq \in {RoadmapRequest(d) : d \in Descriptions}
    /\ hpc = "start"
    /\ hlog = <<>>
    /\ users = {}
    /\ entry = "createThesisRoadmap"
    /\ pc = "idle"
    /\ topic = ""
    /\ fidx = 1
    /\ fetched = FPending
    /\ raws = NoRaws
    /\ relatedPapers = <<>>
    /\ calls = <<>>
    /\ promise = PendingPromise
    /\ extracts = <<>>
    /\ XIdle
    /\ GIdle
    /\ inv = InvIdle /\ adp = AdpIdle /\ ctl = CtlIdle /\ mem = MemIdle

\* createThesisRoadmapBegin without the return after the 400 response
createThesisRoadmapBeginNoReturn ==
    /\ hpc = "start"
    /\ LET d == hreq.thesisDescription IN
       /\ hlog' = IF d = NoDescription \/ d = ""
                  THEN <<Response(400, "Thesis description is required"), Invocation(d)>>
                  ELSE <<Invocation(d)>>
       /\ topic' = d
    /\ hpc' = "awaiting"
    /\ pc' = "stepByStep"
    /\ UNCHANGED <<hreq, users, entry, fidx, fetched, raws, relatedPapers, calls, promise,
                   extracts, xvars, gvars, svars>>

\* lines 5-13: the check of the description, then the call of the pipeline
createThesisRoadmapBegin ==
    /\ hpc = "start"
    /\ LET d == hreq.thesisDescription IN
       IF d = NoDescription \/ d = ""
       THEN /\ hlog' = Append(hlog, Response(400, "Thesis description is required"))
            /\ hpc' = "returned"
            /\ UNCHANGED <<topic, pc>>
       ELSE /\ hlog' = Append(hlog, Invocation(d))
            /\ hpc' = "awaiting"
            /\ topic' = d
            /\ pc' = "stepByStep"
    /\ UNCHANGED <<hreq, users, entry, fidx, fetched, raws, relatedPapers, calls, promise,
                   extracts, xvars, gvars, svars>>

\* lines 13-19: the awaited promise settles: the roadmap is sent, or the
\* rejection lands in the catch block
createThesisRoadmapResume ==
    /\ hpc = "awaiting"
    /\ pc = "done"
    /\ hlog' = Append(hlog,
                  IF promise.state = "resolved"
                  THEN Response(200, [roadmap |-> promise.result])
                  ELSE Response(500, "Failed to generate thesis roadmap"))
    /\ hpc' = "returned"
    /\ UNCHANGED <<hreq, users, pvars, xvars, gvars, svars>>

KNext == createThesisRoadmapBegin \/ createThesisRoadmapResume \/ Next

SpecController == KInit /\ [][KNext]_vars

(***************************************************************************)
(* authenticateUser (middlewares/authMiddleware, src/unnamed/part_000) in  *)
(* front of the handler of GET /api/auth/protected                         *)
(***************************************************************************)
\* req.cookies.token: absent, the empty string, a string that is no JWT, or
\* a JWT: the id it carries, whether its signature was made with the
\* server's secret, whether it has expired, whether it is valid yet
UserIds == {"u1", "u2", "u3"}
Jwts == [form : {"jwt"}, id : UserIds, signed : BOOLEAN, expired : BOOLEAN, early : BOOLEAN]
NotAJwt(form) == [form |-> form, id |-> "", signed |-> FALSE, expired |-> FALSE, early |-> FALSE]
NoToken == NotAJwt("undefined")
EmptyToken == NotAJwt("empty string")
MalformedToken == NotAJwt("malformed")
\* !token
TokenMissing(t) == t = NoToken \/ t = EmptyToken
\* jwt.verify(token, process.env.JWT_SECRET) returns the payload; in every
\* other case it throws
Verifies(t, secretSet) ==
    /\ secretSet
    /\ ~TokenMissing(t)
    /\ t # MalformedToken
    /\ t.signed /\ ~t.expired /\ ~t.early
ProtectedRequest(t, secretSet) ==
    [kind |-> "GET /api/auth/protected", token |-> t, secretSet |-> secretSet]

\* entries of the handler log: next(), with the id attached to the request,
\* and an error that leaves the handler
NextCall(user) == [ev |-> "next", status |-> 0, body |-> user]
Raised(code) == [ev |-> "throw", status |-> 0, body |-> code]

HInit ==
    /\ hreq \in {ProtectedRequest(t, b) :
                    t \in {NoToken, EmptyToken, MalformedToken} \cup Jwts, b \in BOOLEAN}
    /\ hpc = "start"
    /\ hlog = <<>>
    /\ users = {}
    /\ XIdle
    /\ GIdle
    /\ PIdle
    /\ inv = InvIdle /\ adp = AdpIdle /\ ctl = CtlIdle /\ mem = MemIdle

\* the whole middleware, which is synchronous.  Line 56 answers a missing
\* token and does not return: the try block runs in every case.  res.json
\* on a response that was already sent throws ERR_HTTP_HEADERS_SENT, here
\* inside the catch block, so the error leaves the middleware.
authenticateUser ==
    /\ hpc = "start"
    /\ LET token == hreq.token
           first == IF TokenMissing(token)
                    THEN <<Response(401, "Not authorized, token missing")>>
                    ELSE <<>>
           verified == Verifies(token, hreq.secretSet)
           rest == IF verified THEN <<NextCall(token.id)>>
                   ELSE IF first = <<>>
                        THEN <<Response(401, "Not authorized, token invalid")>>
                        ELSE <<Raised("ERR_HTTP_HEADERS_SENT")>>
       IN  /\ hlog' = first \o rest
           /\ hpc' = IF verified THEN "next" ELSE "ended"
    /\ UNCHANGED <<hreq, users, xvars, gvars, pvars, svars>>

\* the route handler that next() passes control to (lines 79-82)
protectedRoute ==
    /\ hpc = "next"
    /\ hlog' = Append(hlog, Response(200, hlog[Len(hlog)].body))
    /\ hpc' = "handled"
    /\ UNCHANGED <<hreq, users, xvars, gvars, pvars, svars>>

HNext == authenticateUser \/ protectedRoute

SpecAuth == HInit /\ [][HNext]_vars

(***************************************************************************)
(* registerUser (controllers/authController.ts) behind POST                *)
(* /api/auth/register, with the users collection of models/User.ts         *)
(***************************************************************************)
\* username, email, password of req.body: absent, the empty string, or a
\* value; and whether the database answers
Usernames == {NoDescription, "", "ana"}
Emails == {NoDescription, "", "a@x.org", "b@x.org"}
Passwords == {NoDescription, "", "pw"}
RegisterRequest(u, e, p, up) ==
    [kind |-> "POST /api/auth/register", username |-> u, email |-> e,
     password |-> p, dbUp |-> up]
\* a document of the collection: UserSchema, with the password hashed by
\* the pre-save hook
UserDocument(u, e, p) == [username |-> u, email |-> e, password |-> [bcrypt |-> p]]
\* !username || !email || !password; the same values fail the schema's
\* required validators
FieldMissing(r) ==
    \E v \in {r.username, r.email, r.password} : v \in {NoDescription, ""}
\* the email of the request belongs to a document of the collection
EmailTaken(r, docs) == \E d \in docs : d.email = r.email
\* entries of the handler log: a call on the User model, and next(error)
ModelCall(fn, arg) == [ev |-> fn, status |-> 0, body |-> arg]
NextError(code) == [ev |-> "next(error)", status |-> 0, body |-> code]
\* line 29: the catch block hands the error to Express, whose default error
\* handler answers 500 unless the response was already sent
PassToNext(log, code) ==
    log \o <<NextError(code)>>
        \o (IF \E k \in 1..Len(log) : log[k].ev = "response" THEN <<>>
            ELSE <<Response(500, code)>>)

RInit ==
    /\ hreq \in {RegisterRequest(u, e, p, up) :
                    u \in Usernames, e \in Emails, p \in Passwords, up \in BOOLEAN}
    /\ hpc = "start"
    /\ hlog = <<>>
    /\ users \in {{}, {UserDocument("bob", "a@x.org", "secret")}}
    /\ XIdle
    /\ GIdle
    /\ PIdle
    /\ inv = InvIdle /\ adp = AdpIdle /\ ctl = CtlIdle /\ mem = MemIdle

\* lines 13-19, up to the await of User.findOne.  Line 16 answers a missing
\* field and does not return: the query is made in every case.
registerUserBegin ==
    /\ hpc = "start"
    /\ hlog' = IF FieldMissing(hreq)
               THEN <<Response(400, "All fields are required.")>>
               ELSE <<>>
    /\ hpc' = "findOne"
    /\ UNCHANGED <<hreq, users, xvars, gvars, pvars, svars>>

\* lines 19-25, from the result of User.findOne to the await of
\* user.save().  Line 21 answers a taken email and does not return either;
\* on a response that was already sent its res.json throws
\* ERR_HTTP_HEADERS_SENT, which the catch block passes to next.
registerUserFound ==
    /\ hpc = "findOne"
    /\ LET taken == EmailTaken(hreq, users)
           sent == hlog # <<>>
           query == hlog \o <<ModelCall("User.findOne", IF taken THEN "user" ELSE "null")>>
       IN  IF ~hreq.dbUp
           THEN /\ hlog' = PassToNext(hlog, "MongoNetworkError")
                /\ hpc' = "ended"
           ELSE IF taken /\ sent
           THEN /\ hlog' = PassToNext(query, "ERR_HTTP_HEADERS_SENT")
                /\ hpc' = "ended"
           ELSE /\ hlog' = query
                            \o (IF taken THEN <<Response(400, "User already exists.")>>
                                ELSE <<>>)
                            \o <<ModelCall("new User", hreq.email),
                                 ModelCall("user.save", hreq.email)>>
                /\ hpc' = "save"
    /\ UNCHANGED <<hreq, users, xvars, gvars, pvars, svars>>

\* lines 25-29, from the result of user.save() on: the required validators
\* and the unique index on email reject the document, or it is stored and
\* line 27 answers 201
registerUserSaved ==
    /\ hpc = "save"
    /\ LET sent == \E k \in 1..Len(hlog) : hlog[k].ev = "response"
       IN  IF FieldMissing(hreq)
           THEN /\ hlog' = PassToNext(hlog, "ValidationError")
                /\ users' = users
           ELSE IF EmailTaken(hreq, users)
           THEN /\ hlog' = PassToNext(hlog, "E11000 duplicate key error")
                /\ users' = users
           ELSE /\ users' = users \cup
                        {UserDocument(hreq.username, hreq.email, hreq.password)}
                /\ hlog' = IF sent THEN PassToNext(hlog, "ERR_HTTP_HEADERS_SENT")
                           ELSE Append(hlog, Response(201, "User registered successfully!"))
    /\ hpc' = "ended"
    /\ UNCHANGED <<hreq, xvars, gvars, pvars, svars>>

RNext == registerUserBegin \/ registerUserFound \/ registerUserSaved

SpecRegister == RInit /\ [][RNext]_vars

(***************************************************************************)
(* Claims about generateThesisRoadmap (checked under Spec)                 *)
(***************************************************************************)
Done == pc = "done"
StagePositions == {"stepByStep", "fetch", "rank", "methodology", "gaps", "prosCons"}
Result == promise.result
GeminiCalled(context) ==
    \E k \in 1..Len(calls) : calls[k].fn = "callGemini" /\ calls[k].name = context
GeminiFailed(context) ==
    \E k \in 1..Len(calls) :
        calls[k].fn = "callGemini" /\ calls[k].name = context /\ ~calls[k].ok
AdapterFailures == {k \in 1..Len(calls) : calls[k].fn = "adapter" /\ ~calls[k].ok}
\* an exception interrupted the stage sequence
Aborted == GeminiFailed("step-by-step guide") \/ GeminiFailed("methodology")
SomeFieldNull == \E k \in 1..Len(Sections) : Result[Sections[k]] = NullV
ErrorPresent == Result.hasError /\ Result.error # <<>>

\* C1: generateThesisRoadmap always resolves with a result object and
\* never rejects, whatever the three adapters and the five Gateway calls do:
\* the promise is never rejected, a run that has not returned is pending at
\* one of the awaited stages, and a run that has returned has resolved with
\* a result that carries the topic.
C1_AlwaysResolves ==
    /\ promise.state # "rejected"
    /\ ~Done => (promise.state = "pending" /\ pc \in StagePositions)
    /\ Done => (promise.state = "resolved" /\ Result # NoResult
                    /\ Result.thesisDescription = topic)

C1_Witness ==
    /\ Done
    /\ promise.state = "resolved"
    /\ Cardinality(AdapterFailures) = 3
    /\ GeminiFailed("rank and summarize papers")
    /\ GeminiFailed("methodology")

\* C2: in every result, error is present and non-empty if and only if one
\* of the five structured fields is null or an exception interrupted the
\* stage sequence, for every JSON value a stage text can parse to.
C2_ErrorIffNullOrAborted ==
    (Done /\ promise.state = "resolved") => (ErrorPresent <=> (SomeFieldNull \/ Aborted))

\* C5: if the Gateway call of stage 1 fails, the paper fetch and the stage
\* 3, 4, 5, 6 calls are never made, and the result has a non-empty error
\* and all five structured fields null.
C5_StageOneFailureAborts ==
    GeminiFailed("step-by-step guide") =>
        /\ Len(calls) = 1
        /\ Done
        /\ promise.state = "resolved"
        /\ ErrorPresent
        /\ \A k \in 1..Len(Sections) : Result[Sections[k]] = NullV

C5_Witness ==
    /\ Done
    /\ calls = <<[fn |-> "callGemini", name |-> "step-by-step guide", kind |-> "failed",
                  logged |-> <<"timeout">>, ok |-> FALSE, papers |-> <<>>]>>
    /\ Result.stepByStep = NullV
    /\ Result.hasError

GuardedStages ==
    << [context |-> "rank and summarize papers", field |-> "relatedPapers",
        marker |-> RankErrorMarker, next |-> "methodology"],
       [context |-> "research gap analysis", field |-> "researchGapAnalysis",
        marker |-> GapsErrorMarker, next |-> "prosCons"],
       [context |-> "pros and cons", field |-> "prosAndCons",
        marker |-> ProsConsErrorMarker, next |-> "done"] >>

\* C6: a Gateway failure inside stage 3, 5 or 6 does not abort the run: the
\* stage that follows it is awaited next, a run in which neither stage 1
\* nor stage 4 fails makes all five Gateway calls, and the field of the
\* failed stage in the result is the parsed error marker, not null.
C6_GuardedFailureContinues ==
    /\ \A g \in 1..Len(GuardedStages) :
          GeminiFailed(GuardedStages[g].context) =>
              /\ (~calls[Len(calls)].ok /\ calls[Len(calls)].name = GuardedStages[g].context)
                    => pc = GuardedStages[g].next
              /\ Done =>
                    /\ promise.state = "resolved"
                    /\ Result[GuardedStages[g].field] = JSONparse(GuardedStages[g].marker).val
                    /\ Result[GuardedStages[g].field] # NullV
    /\ (Done /\ ~Aborted) => \A c \in Contexts : GeminiCalled(c)

C6_Witness ==
    /\ Done
    /\ ~Aborted
    /\ \A g \in 1..Len(GuardedStages) : GeminiFailed(GuardedStages[g].context)
    /\ \A c \in Contexts : GeminiCalled(c)
    /\ Result.relatedPapers = <<"[", "{", Q, "error", Q, ":", Q,
                                "Failed to prepare data for research ranking.", Q, "}", "]">>

\* the Gateway calls, by context, and what the log says of them
GeminiOk(context) ==
    \E k \in 1..Len(calls) :
        calls[k].fn = "callGemini" /\ calls[k].name = context /\ calls[k].ok
CorpusCalls ==
    {k \in 1..Len(calls) :
        /\ calls[k].fn = "callGemini"
        /\ calls[k].name \in {"rank and summarize papers", "research gap analysis",
                              "pros and cons"}}
AdapterCalls == {k \in 1..Len(calls) : calls[k].fn = "adapter"}

\* C11: when every paper adapter fails and the five Gateway calls succeed
\* with parseable output, the stage 3, 5 and 6 calls are still made, with
\* the empty corpus, and the result has all five structured fields
\* non-null and no error.
C11_EmptyCorpusTolerated ==
    ( /\ Done
      /\ Cardinality(AdapterFailures) = Len(Providers)
      /\ \A c \in Contexts : GeminiOk(c)
      /\ \A k \in 1..Len(Sections) : JSONparse(StripFences(raws[Sections[k]])).ok )
    => /\ Cardinality(CorpusCalls) = 3
       /\ \A k \in CorpusCalls : calls[k].papers = <<>>
       /\ promise.state = "resolved"
       /\ \A k \in 1..Len(Sections) : Result[Sections[k]] # NullV
       /\ ~Result.hasError
       /\ Result.error = <<>>

\* C12: every result of generateThesisRoadmap, on the success path, the
\* parse-failure path and the abort path alike, carries the input topic
\* unchanged.
C12_ResultCarriesTopic ==
    /\ topic \in Topics
    /\ Done =>
          /\ promise.state = "resolved"
          /\ (~Result.hasError) => Result.thesisDescription = topic
          /\ (Result.hasError /\ ~Aborted) => Result.thesisDescription = topic
          /\ Aborted => Result.thesisDescription = topic

C12_Witness ==
    /\ Done
    /\ topic = "ai in education"
    /\ ~Aborted
    /\ Result.hasError
    /\ Result.stepByStep = NullV
    /\ Result.thesisDescription = "ai in education"

\* what extraction yields on each text a stage can capture
ExtractedFrom(raw) ==
    CASE raw = NullRaw -> NullV
      [] raw = GoodArrayText -> <<"[", "1", "]">>
      [] raw = ZeroText -> <<"0">>
      [] raw = TruncatedText -> NullV
      [] raw = RankErrorMarker -> RankErrorMarker

\* C16: if the Gateway call of stage 4 fails, stages 5 and 6 are never
\* invoked, and the result has a non-empty error, methodology,
\* researchGapAnalysis and prosAndCons null, and stepByStep and
\* relatedPapers equal to what extraction yields on the raw texts that
\* stages 1 and 3 captured.
C16_StageFourFailureAborts ==
    GeminiFailed("methodology") =>
        /\ Done
        /\ calls[Len(calls)].name = "methodology"
        /\ ~GeminiCalled("research gap analysis")
        /\ ~GeminiCalled("pros and cons")
        /\ promise.state = "resolved"
        /\ ErrorPresent
        /\ Result.methodology = NullV
        /\ Result.researchGapAnalysis = NullV
        /\ Result.prosAndCons = NullV
        /\ raws.stepByStep \in PipelineTexts
        /\ raws.relatedPapers \in PipelineTexts \cup {RankErrorMarker}
        /\ Result.stepByStep = ExtractedFrom(raws.stepByStep)
        /\ Result.relatedPapers = ExtractedFrom(raws.relatedPapers)

C16_Witness ==
    /\ Done
    /\ GeminiFailed("methodology")
    /\ raws.stepByStep = GoodArrayText
    /\ Result.stepByStep = <<"[", "1", "]">>
    /\ GeminiFailed("rank and summarize papers")
    /\ Result.relatedPapers = RankErrorMarker
    /\ Result.methodology = NullV

AbortMessage == "Failed to generate thesis roadmap: "
OnAbortPath == promise.state = "resolved" /\ Result.error # <<>> /\ Result.error[1] = AbortMessage

\* C17: the top-level abort path (error "Failed to generate thesis
\* roadmap: ...") is reached only by a Gateway failure in stage 1 or in
\* stage 4: no adapter failure, no Gateway failure in stage 3, 5 or 6 and
\* no parse failure leads to it.
C17_AbortOnlyFromUnguardedStage ==
    /\ ~fetched.threw
    /\ OnAbortPath =>
          /\ Done
          /\ calls[Len(calls)].fn = "callGemini"
          /\ calls[Len(calls)].name \in {"step-by-step guide", "methodology"}
          /\ ~calls[Len(calls)].ok
    /\ (Done /\ ~Aborted) => ~OnAbortPath

C17_Witness ==
    /\ Done
    /\ Cardinality(AdapterFailures) = 3
    /\ GeminiFailed("rank and summarize papers")
    /\ GeminiFailed("research gap analysis")
    /\ GeminiFailed("pros and cons")
    /\ raws.stepByStep = TruncatedText
    /\ Result.stepByStep = NullV
    /\ Result.hasError
    /\ ~OnAbortPath

\* C20: stages 3, 5 and 6 all receive exactly the paper list that the
\* stage 2 fallback chain returned, whatever the other generation stages
\* produced.
C20_CorpusIsFetchResult ==
    /\ \A k \in CorpusCalls :
          /\ ~fetched.threw
          /\ fetched # FPending
          /\ calls[k].papers = fetched.papers
          /\ \E a \in AdapterCalls :
                /\ a < k
                /\ \A b \in AdapterCalls : b <= a
                /\ calls[k].papers = calls[a].papers
    /\ pc \in {"rank", "methodology", "gaps", "prosCons"} => relatedPapers = fetched.papers

C20_Witness ==
    /\ Done
    /\ Cardinality(CorpusCalls) = 3
    /\ Len(fetched.papers) = 3
    /\ calls[3].name = "OpenAlex"
    /\ \A k \in CorpusCalls : calls[k].papers = calls[3].papers
    /\ raws.stepByStep = ZeroText /\ raws.methodology = GoodArrayText

\* the Gateway calls of the run made for one context, and all of them
GeminiCallsFor(context) ==
    {k \in 1..Len(calls) : calls[k].fn = "callGemini" /\ calls[k].name = context}
GeminiCalls == {k \in 1..Len(calls) : calls[k].fn = "callGemini"}

\* C25: in every run of generateThesisRoadmap the Gateway is called at most
\* once for each generation stage and at most five times in all: no call
\* follows a failed call of the same stage.
C25_NoGatewayRetry ==
    /\ \A c \in Contexts : Cardinality(GeminiCallsFor(c)) <= 1
    /\ Cardinality(GeminiCalls) <= 5
    /\ \A k \in GeminiCalls : calls[k].name \in Contexts
    /\ \A k \in GeminiCalls : ~calls[k].ok =>
          \A h \in GeminiCalls : h > k => calls[h].name # calls[k].name

C25_Witness ==
    /\ Done
    /\ Cardinality(GeminiCalls) = 5
    /\ GeminiFailed("rank and summarize papers")
    /\ GeminiFailed("pros and cons")
    /\ Cardinality(GeminiCallsFor("rank and summarize papers")) = 1

\* the text a successful stage call returned does not parse
Unparseable(f) == raws[f] # NullRaw /\ extractAndParseJson(raws[f]).val = NullV
\* the last call of the log is a failed call made outside a guarded helper
LastCallRaised ==
    /\ calls # <<>>
    /\ ~calls[Len(calls)].ok
    /\ calls[Len(calls)].name \in {"step-by-step guide", "methodology"}

\* C26: generateThesisRoadmap hands the raw texts to the extractor only
\* after the last stage call has returned or after a stage has raised, all
\* five at once and never between two stage calls (no call is made once
\* extraction has happened; the last stage has been called and has returned
\* a text or its error marker, or the last call raised); so a run in which
\* no unguarded stage raises makes all five stage calls, also when a text
\* does not parse, and the field of that text is null.
C26_ExtractionAfterAllStages ==
    /\ extracts # <<>> =>
          /\ Done
          /\ extracts = RawsInOrder(raws)
          /\ GeminiCalled("pros and cons") \/ LastCallRaised
    /\ ~Done => extracts = <<>>
    /\ (Done /\ ~Aborted) => \A c \in Contexts : GeminiCalled(c)
    /\ \A k \in 1..Len(Sections) :
          (Done /\ Unparseable(Sections[k])) => Result[Sections[k]] = NullV

C26_Witness ==
    /\ Done
    /\ Unparseable("stepByStep")
    /\ \A c \in Contexts : GeminiOk(c)
    /\ Len(extracts) = 5
    /\ Result.stepByStep = NullV
    /\ Result.prosAndCons # NullV

\* the text kept for a section parses to an object or an array
ParsesToStructure(f) ==
    LET v == extractAndParseJson(raws[f]).val IN
    StartsWith(v, <<"[">>) \/ StartsWith(v, <<"{">>)
GuardedFailures == {g \in 1..Len(GuardedStages) : GeminiFailed(GuardedStages[g].context)}

\* C27: when stages 1 and 4 succeed, one or more of the Gateway calls of
\* stages 3, 5 and 6 fail and every text a stage call returned parses to an
\* object or an array, the result carries no error, although a generation
\* stage failed, and the field of each failed stage holds the value of its
\* error marker (whatever the paper adapters did).
C27_GuardedFailureUnreported ==
    ( /\ Done
      /\ GeminiOk("step-by-step guide")
      /\ GeminiOk("methodology")
      /\ GuardedFailures # {}
      /\ \A c \in Contexts : GeminiOk(c) => ParsesToStructure(FieldOf(c)) )
    => /\ promise.state = "resolved"
       /\ ~Result.hasError
       /\ Result.error = <<>>
       /\ \A g \in GuardedFailures :
             Result[GuardedStages[g].field] = JSONparse(GuardedStages[g].marker).val

C27_Witness ==
    /\ Done
    /\ GuardedFailures = {1, 3}
    /\ AdapterFailures = {}
    /\ GeminiOk("step-by-step guide") /\ GeminiOk("methodology")
    /\ GeminiOk("research gap analysis")
    /\ \A c \in Contexts : GeminiOk(c) => ParsesToStructure(FieldOf(c))
    /\ ~Result.hasError
    /\ Result.prosAndCons = <<"{", Q, "error", Q, ":", Q,
                              "Failed to prepare data for pros and cons analysis.", Q, "}">>

\* the labels of the sections whose field in the result is null, from the
\* k-th section on, in the order of the sections
RECURSIVE NullLabels(_)
NullLabels(k) ==
    IF k > Len(Sections) THEN <<>>
    ELSE (IF Result[Sections[k]] = NullV THEN <<SectionLabel(Sections[k])>> ELSE <<>>)
            \o NullLabels(k + 1)

\* C29: when the stage sequence completes and the parsed value of at least
\* one section is missing (null), the error message names exactly the
\* sections whose parsed value is missing, in the order step-by-step guide,
\* ranked papers, methodology, research gaps, pros and cons, and every
\* field holds the parsed value of its text.
C29_ErrorNamesMissingSections ==
    (Done /\ ~Aborted /\ promise.state = "resolved" /\ SomeFieldNull) =>
        /\ Result.hasError
        /\ Result.error = <<"Failed to parse the following sections from the AI: ",
                            JoinStrings(NullLabels(1), ", "),
                            ". The structure might be invalid.">>
        /\ \A k \in 1..Len(Sections) :
              Result[Sections[k]] = extractAndParseJson(raws[Sections[k]]).val

(***************************************************************************)
(* Claims about fetchRelatedPapers (checked under SpecFetch)               *)
(***************************************************************************)
\* C3: fetchRelatedPapers tries the adapters in the order Semantic Scholar,
\* OpenAlex, CORE; as soon as one adapter returns a non-empty list, exactly
\* that list is returned and no later adapter is invoked.
C3_FallbackShortCircuit ==
    /\ Len(calls) <= Len(Providers)
    /\ \A k \in 1..Len(calls) :
          /\ calls[k].fn = "adapter"
          /\ calls[k].name = Providers[k]
          /\ calls[k].papers # <<>> =>
                /\ k = Len(calls)
                /\ Done
                /\ fetched = AReturn(calls[k].papers)

C3_Witness ==
    /\ Done
    /\ Len(calls) = 2
    /\ calls[1].kind = "ok" /\ calls[1].papers = <<>>
    /\ calls[2].name = "OpenAlex" /\ Len(calls[2].papers) = 3
    /\ fetched = AReturn(calls[2].papers)

\* C4: fetchRelatedPapers never raises, whatever each adapter does; its
\* result is the empty list or the non-empty list of exactly one adapter,
\* and it is the empty list exactly when all three adapters are exhausted
\* without a non-empty result.
C4_FetchNeverRaises ==
    /\ ~fetched.threw
    /\ ~Done => (fetched = FPending /\ pc = "fetch")
    /\ Done =>
          /\ \/ fetched.papers = <<>>
             \/ \E k \in 1..Len(calls) :
                   /\ fetched.papers = calls[k].papers
                   /\ \A m \in 1..Len(fetched.papers) :
                         fetched.papers[m] = PaperFrom(Providers[k], RawRecord(Providers[k], m % 2 = 1))
          /\ fetched.papers = <<>> <=>
                (Len(calls) = Len(Providers) /\ \A k \in 1..Len(calls) : calls[k].papers = <<>>)

C4_Witness ==
    /\ Done
    /\ Len(calls) = 3
    /\ calls[1].kind = "http429"
    /\ calls[2].kind = "invalid"
    /\ calls[3].kind = "network"
    /\ fetched = AReturn(<<>>)

\* C19: adapter k+1 is invoked if and only if every adapter 1..k returned
\* an empty list or failed; a failure is handled like an empty result, and
\* each adapter is invoked at most once per fetch.
C19_NextAdapterIffAllEmpty ==
    /\ \A k \in 1..(Len(Providers) - 1) :
          /\ Len(calls) >= k + 1 =>
                \A j \in 1..k : calls[j].papers = <<>>
          /\ (Done /\ Len(calls) >= k /\ \A j \in 1..k : calls[j].papers = <<>>) =>
                Len(calls) >= k + 1
    /\ \A j \in 1..Len(calls) : \A m \in 1..Len(calls) :
          calls[j].name = calls[m].name => j = m
    /\ \A j \in 1..Len(calls) : ~calls[j].ok => calls[j].papers = <<>>

C19_Witness ==
    /\ Done
    /\ Len(calls) = 3
    /\ calls[1].kind = "http429" /\ ~calls[1].ok
    /\ calls[2].kind = "ok" /\ calls[2].papers = <<>>
    /\ calls[3].name = "CORE" /\ Len(calls[3].papers) = 2

(***************************************************************************)
(* Claims about invertAbstract (checked under SpecInvert)                  *)
(***************************************************************************)
\* C13: invertAbstract emits the words of an inverted index in strictly
\* ascending order of position, joined by single spaces: the result is the
\* text the index was made of, whatever the order of the keys and the gaps
\* between the positions.
C13_InvertRestoresText ==
    /\ inv.out # InvPending => inv.out = JoinStrings(inv.text, " ")
    /\ inv.outReordered # InvPending => inv.outReordered = JoinStrings(inv.text, " ")

C13_Witness ==
    /\ inv.text = <<"quick", "fox">>
    /\ inv.pos = <<2, 10>>
    /\ inv.keys = <<"fox", "quick">>
    /\ inv.out = "quick fox"
    /\ inv.outReordered = "quick fox"

(***************************************************************************)
(* Claims about the adapters' record mapping (checked under SpecAdapter)   *)
(***************************************************************************)
AMissing(f) == f \notin adp.present
PaperFields == {"title", "url", "paperLink", "abstract", "citationCount", "authors"}

Trace(i) == ctl[i].trace
Ends(i) == {k \in 1..Len(Trace(i)) : Trace(i)[k].ev = "end"}
Starts(i) == {k \in 1..Len(Trace(i)) : Trace(i)[k].ev = "start"}
Answered(i, c) == \E k \in Ends(i) : Trace(i)[k].call = c
RespTo(i, c) == Trace(i)[CHOOSE k \in Ends(i) : Trace(i)[k].call = c].resp
\* what the request's own responses give, stage by stage
OwnStage(i, c) == StageResult(c, RespTo(i, c))
OwnRaws(i) ==
    [f \in DOMAIN NoRaws |->
        LET c == CHOOSE x \in Contexts : FieldOf(x) = f IN
        IF Answered(i, c) /\ ~OwnStage(i, c).threw THEN OwnStage(i, c).text ELSE NullRaw]
OwnAborts(i) == {c \in UnguardedContexts : Answered(i, c) /\ OwnStage(i, c).threw}
OwnOutcome(i) ==
    IF OwnAborts(i) # {}
    THEN CatchTopLevel(TopicOf(i), OwnRaws(i),
                       OwnStage(i, CHOOSE c \in OwnAborts(i) : TRUE).msg)
    ELSE IF Answered(i, "pros and cons") THEN ParseAndAggregate(TopicOf(i), OwnRaws(i))
    ELSE PendingPromise
OwnPapers(i) ==
    LET ks == {k \in Ends(i) : Trace(i)[k].call \in AdapterNames}
        last == CHOOSE k \in ks : \A m \in ks : m <= k
    IN  IF ks = {} THEN <<>>
        ELSE TryAdapter(Trace(i)[last].call, Trace(i)[last].resp).papers

\* C15: concurrent invocations are independent: under every interleaving
\* of two requests, the promise of each request, and the corpus it passes
\* to its stages, are what its own topic and the responses to its own calls
\* give, whatever the other request did.
C15_RequestsIndependent ==
    \A i \in Requests :
        /\ ctl[i].promise = OwnOutcome(i)
        /\ \A k \in Starts(i) :
              Trace(i)[k].call \notin (AdapterNames \cup UnguardedContexts)
                 => Trace(i)[k].papers = OwnPapers(i)

C15_Witness ==
    /\ ctl[1].promise.state = "resolved" /\ ctl[2].promise.state = "resolved"
    /\ ~ctl[1].promise.result.hasError /\ ~ctl[2].promise.result.hasError
    /\ ctl[1].promise.result.stepByStep = <<"[", "1", "]">>
    /\ ctl[2].promise.result.stepByStep = <<"[", "2", "]">>
    /\ ctl[1].promise.result.thesisDescription = "effect of remote work on productivity"
    /\ ctl[2].promise.result.thesisDescription = "ai in education"
    /\ Len(mem[1].relatedPapers) = 1 /\ Len(mem[2].relatedPapers) = 2

GatewayBefore(c) ==
    CASE c = "rank and summarize papers" -> "step-by-step guide"
      [] c = "methodology" -> "rank and summarize papers"
      [] c = "research gap analysis" -> "methodology"
      [] c = "pros and cons" -> "research gap analysis"

\* C18: within one request the external calls happen one at a time in the
\* order stage 1, paper fetch, stage 3, stage 4, stage 5, stage 6: a call
\* starts only after the call before it has completed, and no two calls of
\* the same request are in flight together.
C18_CallsSequential ==
    \A i \in Requests :
        /\ Cardinality(ctl[i].inflight) <= 1
        /\ ctl[i].inflight =
              {Trace(i)[k].call : k \in {m \in Starts(i) : ~Answered(i, Trace(i)[m].call)}}
        /\ \A k \in 1..Len(Trace(i)) :
              /\ k % 2 = 1 => Trace(i)[k].ev = "start"
              /\ k % 2 = 0 => (Trace(i)[k].ev = "end" /\ Trace(i)[k].call = Trace(i)[k - 1].call)
        /\ Len(Trace(i)) >= 1 => Trace(i)[1].call = "step-by-step guide"
        /\ \A j \in Starts(i) : \A k \in Starts(i) :
              j < k => CallRank(Trace(i)[j].call) < CallRank(Trace(i)[k].call)
        /\ \A k \in Starts(i) :
              LET c == Trace(i)[k].call IN
              /\ c \in AdapterNames =>
                    \E e \in Ends(i) : e < k /\ Trace(i)[e].call = "step-by-step guide"
              /\ c \in Contexts \ {"step-by-step guide"} =>
                    \E e \in Ends(i) : e < k /\ Trace(i)[e].call = GatewayBefore(c)
              /\ c = "rank and summarize papers" =>
                    (Trace(i)[k - 1].ev = "end" /\ Trace(i)[k - 1].call \in AdapterNames)

C18_Witness ==
    /\ Len(Trace(1)) = 16
    /\ Trace(1)[16].call = "pros and cons"
    /\ ctl[1].inflight = {}
    /\ ctl[2].inflight = {"methodology"}

(***************************************************************************)
(* Claims about extractAndParseJson (checked under SpecExtract)            *)
(***************************************************************************)
XEmptyInput == xraw = NullRaw \/ xraw = <<>>
XStripped == StripFences(xraw)
XFirstParse == JSONparse(XStripped)
XSecondParse == JSONparse(CleanString(XStripped))
XFailsAfterRepair == ~XFirstParse.ok /\ ~XSecondParse.ok
XParsedValue == IF XFirstParse.ok THEN XFirstParse.val ELSE XSecondParse.val
Truncated == <<"[", "{", Q, "a", Q, ":", "1", ",", "]">>

\* C8 as stated: extractAndParseJson never raises; it returns null for
\* null / empty input and for text that still fails to parse after the
\* repair pass, and in every other case it returns the parsed value.
C8_Original ==
    xres # Pending =>
        /\ ~xres.threw
        /\ XEmptyInput => xres.val = NullV
        /\ (~XEmptyInput /\ XFailsAfterRepair) => xres.val = NullV
        /\ (~XEmptyInput /\ ~XFailsAfterRepair) => xres.val = XParsedValue

\* C8 amended: extractAndParseJson never raises; it returns null for
\* null / empty input, for stripped text that the plain-text heuristic
\* short-circuits (not starting with a bracket or brace, shorter than 200
\* characters, containing "error" or "sorry") and for text that still fails
\* to parse after the repair pass; in every other case it returns the
\* parsed value.
C8_ExtractNeverRaises ==
    xres # Pending =>
        /\ ~xres.threw
        /\ XEmptyInput => xres.val = NullV
        /\ (~XEmptyInput /\ LooksLikePlainText(XStripped)) => xres.val = NullV
        /\ (~XEmptyInput /\ XFailsAfterRepair) => xres.val = NullV
        /\ (~XEmptyInput /\ ~LooksLikePlainText(XStripped) /\ ~XFailsAfterRepair)
              => xres.val = XParsedValue

C8_Witness == xraw = Truncated /\ xres = Returned(NullV)

\* C9 as stated: for every text, the result on the text wrapped in one
\* leading and one trailing code-fence line equals the result on the text.
C9_Original == (xres # Pending /\ xresF # Pending) => xresF = xres

\* C9 amended: for every text that itself contains no code-fence marker
\* (three backquotes), the result on the text wrapped in one leading and
\* one trailing code-fence line equals the result on the text unwrapped.
C9_FenceTransparent ==
    (xres # Pending /\ xresF # Pending /\ ~Includes(xraw, FenceClose)) => xresF = xres

C9_Witness ==
    /\ xraw = <<"{", Q, "k", Q, ":", "1", "}">>
    /\ xresF = xres
    /\ xres = Returned(<<"{", Q, "k", Q, ":", "1", "}">>)

XBreakSpans == {sp \in Spans(xraw) : HasBreak(xraw, sp)}
XEscapedBreak == \E k \in 2..Len(xraw) : xraw[k] = NL /\ xraw[k - 1] = BS
XColonInString == \E sp \in Spans(xraw) : \E k \in Inside(sp) : xraw[k] = ":"

XRepairRan == xres # Pending /\ ~XEmptyInput /\ ~LooksLikePlainText(XStripped) /\ ~XFirstParse.ok
XCleaned == CleanString(XStripped)
\* position i of text a lies between two quotes of the same kind
BetweenQuotes(a, i) ==
    \E q \in {Q, "'"} : (\E h \in 1..(i - 1) : a[h] = q) /\ (\E h \in (i + 1)..Len(a) : a[h] = q)
\* b is a from position i (b from position j) with nothing changed but
\* line feeds that are not preceded by a backslash and lie between quotes,
\* each replaced by the two characters backslash n
RECURSIVE OnlyBreaksEscaped(_, _, _, _)
OnlyBreaksEscaped(a, i, b, j) ==
    IF i > Len(a) THEN j > Len(b)
    ELSE IF j > Len(b) THEN FALSE
    ELSE IF a[i] = b[j] THEN OnlyBreaksEscaped(a, i + 1, b, j + 1)
    ELSE /\ a[i] = NL
         /\ ~(i > 1 /\ a[i - 1] = BS)
         /\ BetweenQuotes(a, i)
         /\ j + 1 <= Len(b) /\ b[j] = BS /\ b[j + 1] = "n"
         /\ OnlyBreaksEscaped(a, i + 1, b, j + 2)

\* C22: whenever the repair pass of extractAndParseJson runs, the repaired
\* text differs from the text before repair only in unescaped literal line
\* feeds inside quoted spans, each replaced by an escaped line feed: every
\* other character, the ones outside the quoted spans and the already
\* escaped sequences included, is the same before and after.
C22_RepairChangesOnlyBreaks ==
    XRepairRan => OnlyBreaksEscaped(XStripped, 1, XCleaned, 1)
\* the characters a fence marker and the white space around it are made of
FenceChars == WhiteSpace \cup {BT, "j", "s", "o", "n", "J", "S", "O", "N"}
CountOf(s, S) == Cardinality({i \in 1..Len(s) : s[i] \in S})
RECURSIVE Without(_, _)
Without(s, S) ==
    IF s = <<>> THEN <<>>
    ELSE (IF Head(s) \in S THEN <<>> ELSE <<Head(s)>>) \o Without(Tail(s), S)
\* some line of s begins with the opening marker / ends with the closing one
OpensALine(s) == \E i \in 1..Len(s) : LineStart(s, i) /\ MatchAtCI(s, i, FenceOpen)
ClosesALine(s) == \E i \in 1..Len(s) : MatchAt(s, i, FenceClose) /\ LineEnd(s, i + Len(FenceClose))
\* the text with a marker at its very start and a marker at its very end
\* removed, white space around them set aside
EndsStripped(s) ==
    LET t == Trim(s)
        a == IF MatchAtCI(t, 1, FenceOpen)
             THEN SubSeq(t, SkipWs(t, 1 + Len(FenceOpen)), Len(t)) ELSE t
        e == Len(a) - Len(FenceClose) + 1
        b == IF MatchAt(a, e, FenceClose) THEN SubSeq(a, 1, SkipWsBack(a, e - 1)) ELSE a
    IN  Trim(b)

\* C23 as stated: fence stripping removes at most one marker line at the
\* very start of the text and at most one at the very end (case-
\* insensitively), and leaves a marker in the interior of the text unchanged.
C23_Original ==
    (xres # Pending /\ ~XEmptyInput) => XStripped = EndsStripped(xraw)

\* C23 amended: fence stripping removes at most one opening marker and at
\* most one closing marker, matched case-insensitively and by line, not by
\* the ends of the text: exactly one opening marker is removed when some
\* line of the text begins with it, exactly one closing marker when some
\* line ends with it, wherever that line is; nothing but markers and white
\* space is removed, so every further marker stays in the text.
C23_StripsOneFencePerKind ==
    (xres # Pending /\ ~XEmptyInput) =>
        /\ Without(XStripped, FenceChars) = Without(xraw, FenceChars)
        /\ CountOf(xraw, {"j", "J"}) - CountOf(XStripped, {"j", "J"})
              = (IF OpensALine(xraw) THEN 1 ELSE 0)
        /\ CountOf(xraw, {BT}) - CountOf(XStripped, {BT})
              = Len(FenceClose) * ((IF OpensALine(xraw) THEN 1 ELSE 0)
                                     + (IF ClosesALine(xraw) THEN 1 ELSE 0))

C23_Witness ==
    /\ xraw = FenceOpen \o <<NL>> \o FenceOpen \o <<NL, "[", "1", "]", NL>>
                \o FenceClose \o <<NL>> \o FenceClose
    /\ xres # Pending
    /\ XStripped = FenceOpen \o <<NL, "[", "1", "]", NL>> \o FenceClose
XStartsLikeJson == StartsWith(XStripped, <<"[">>) \/ StartsWith(XStripped, <<"{">>)
XHasWording == Includes(XStripped, WordError) \/ Includes(XStripped, WordSorry)

\* C24: for a text that reaches fence stripping (it is neither null nor
\* empty), extractAndParseJson returns null without handing anything to
\* JSON.parse exactly when the stripped text does not begin with a bracket
\* or brace, is shorter than 200 characters and contains the wording
\* "error" or "sorry"; a stripped text that begins with a bracket or brace
\* is never short-circuited: the strict parse is attempted on it first.
C24_ShortCircuitIff ==
    (xres # Pending /\ ~XEmptyInput) =>
        /\ (xparses = <<>>)
              <=> (~XStartsLikeJson /\ CharLen(XStripped) < 200 /\ XHasWording)
        /\ xparses = <<>> => xres = Returned(NullV)
        /\ xparses # <<>> => xparses[1] = XStripped
        /\ XStartsLikeJson => (xparses # <<>> /\ xparses[1] = XStripped)

C24_Witness ==
    /\ xres # Pending
    /\ CharLen(xraw) = 200
    /\ XHasWording
    /\ ~XStartsLikeJson
    /\ Len(xparses) = 2
    /\ xres = Returned(NullV)
(***************************************************************************)
(* Claims about callGemini (checked under SpecGateway)                     *)
(***************************************************************************)
GFirstText == gresp.candidates[1].text

\* C7: callGemini returns the raw text of the first candidate if and only
\* if a response envelope is present, the input is not flagged as blocked,
\* at least one candidate is returned and the first candidate has a
\* non-empty text; in every other case (a blocked input that carries
\* candidates, a transport failure or timeout included) it raises an error
\* whose message names the context argument.
C7_GatewayReturnsIff ==
    gout # GPending =>
        LET usable ==
                /\ gresp.transport = "ok"
                /\ gresp.data
                /\ gresp.blockReason = ""
                /\ gresp.hasCandidates
                /\ Len(gresp.candidates) >= 1
                /\ GFirstText # NullRaw
                /\ GFirstText # <<>>
        IN  /\ usable <=> ~gout.threw
            /\ ~gout.threw => gout.text = GFirstText
            /\ gout.threw => \E k \in 1..Len(gout.msg) : gout.msg[k] = gctx

C7_Witness ==
    /\ gresp.blockReason = "SAFETY"
    /\ Len(gresp.candidates) >= 1
    /\ GFirstText = GoodArrayText
    /\ gout.threw
    /\ gout.msg = FailedMessage(gctx)

\* line 430 was reached: the envelope passed the checks of lines 411-428
GCandidateChosen ==
    /\ gresp.transport = "ok"
    /\ gresp.data
    /\ gresp.blockReason = ""
    /\ gresp.hasCandidates
    /\ Len(gresp.candidates) >= 1
\* the same response with the finish reason of its first candidate set to r
GWithFinishReason(r) ==
    [gresp EXCEPT !.candidates = [k \in DOMAIN gresp.candidates |->
        IF k = 1 THEN [gresp.candidates[k] EXCEPT !.finishReason = r]
        ELSE gresp.candidates[k]]]

\* C21: the finish reason of the chosen candidate never by itself makes
\* callGemini raise: the outcome of the call is the outcome for the same
\* response with finish reason STOP, and a chosen candidate with a
\* non-empty text has that text returned whatever its finish reason is.
C21_FinishReasonWarnOnly ==
    (gout # GPending /\ GCandidateChosen) =>
        /\ gout = callGemini(GWithFinishReason("STOP"), gctx)
        /\ (GFirstText # NullRaw /\ GFirstText # <<>>)
              => (~gout.threw /\ gout.text = GFirstText)

C21_Witness ==
    /\ GCandidateChosen
    /\ gresp.candidates[1].finishReason = "MAX_TOKENS"
    /\ GFirstText = TruncatedText
    /\ gout = GReturn(TruncatedText)

(***************************************************************************)
(* Claims about createThesisRoadmap (checked under SpecController)         *)
(***************************************************************************)
Responses == {k \in 1..Len(hlog) : hlog[k].ev = "response"}
Invocations == {k \in 1..Len(hlog) : hlog[k].ev = "generateThesisRoadmap"}
DescriptionGiven == hreq.thesisDescription \notin {NoDescription, ""}

\* C28: createThesisRoadmap sends exactly one response per request: never
\* two, and one once the handler has returned (until then it is at a step
\* it can take).  Without a thesisDescription, or with an empty one, the
\* response is 400 and the pipeline is never invoked; otherwise
\* generateThesisRoadmap is invoked exactly once and the response is 200
\* with the roadmap it returned.  No response is a 500, whatever the
\* providers, the Gateway and the parses did.
C28_OneResponsePerRequest ==
    /\ Cardinality(Responses) <= 1
    /\ Cardinality(Invocations) <= 1
    /\ hpc = "returned" => Cardinality(Responses) = 1
    /\ hpc # "returned" =>
          \/ hpc = "start"
          \/ hpc = "awaiting" /\ pc \in StagePositions \cup {"done"}
    /\ \A k \in Responses : hlog[k].status # 500
    /\ ~DescriptionGiven =>
          /\ Invocations = {}
          /\ calls = <<>>
          /\ \A k \in Responses : hlog[k].status = 400
    /\ (DescriptionGiven /\ hpc = "returned") =>
          /\ Cardinality(Invocations) = 1
          /\ \A k \in Invocations : hlog[k].body = hreq.thesisDescription
          /\ \A k \in Responses :
                /\ hlog[k].status = 200
                /\ promise.state = "resolved"
                /\ hlog[k].body = [roadmap |-> Result]
                /\ Result.thesisDescription = hreq.thesisDescription

C28_Witness ==
    /\ hpc = "returned"
    /\ Cardinality(AdapterFailures) = 3
    /\ GeminiFailed("methodology")
    /\ Result.stepByStep = NullV
    /\ hlog = <<Invocation("ai in education"), Response(200, [roadmap |-> Result])>>
    /\ Result.hasError

(***************************************************************************)
(* Claims about authenticateUser (checked under SpecAuth)                  *)
(***************************************************************************)
\* C30: authenticateUser produces exactly one outcome for a request: when
\* the token is present and verifies, it calls next() once and sends no
\* response; when the token is missing or invalid, it sends one 401
\* response and does not call next(); it does nothing else.
C30_OneOutcomePerRequest ==
    hpc \in {"next", "ended"} =>
        IF Verifies(hreq.token, hreq.secretSet)
        THEN hlog = <<NextCall(hreq.token.id)>>
        ELSE /\ Len(hlog) = 1
             /\ hlog[1].ev = "response"
             /\ hlog[1].status = 401
\* the chunks of the messages that line 450 logged for the failed Gateway
\* calls of the run
LoggedReasons ==
    UNION {{calls[k].logged[i] : i \in 1..Len(calls[k].logged)} :
              k \in {n \in 1..Len(calls) : calls[n].fn = "callGemini"}}
LastCall == calls[Len(calls)]

\* C32: every error the Gateway call raises has the message "Failed to get
\* response from AI for <context>." whichever check failed, and the error
\* of an aborted run is that message of the failing stage (step-by-step
\* guide or methodology, the last call of the run) behind the prefix of the
\* catch block, with no part of the specific reason (the transport error,
\* the block reason) in it.
C32_ErrorNamesStageOnly ==
    /\ \A resp \in PipelineGatewayResponses, c \in Contexts :
          callGemini(resp, c).threw => callGemini(resp, c).msg = FailedMessage(c)
    /\ (Done /\ Aborted) =>
          /\ LastCall.fn = "callGemini"
          /\ ~LastCall.ok
          /\ LastCall.name \in {"step-by-step guide", "methodology"}
          /\ Result.error = <<"Failed to generate thesis roadmap: ",
                              "Failed to get response from AI for ", LastCall.name, ".">>
          /\ \A j \in 1..Len(Result.error) : Result.error[j] \notin LoggedReasons

C32_Witness ==
    /\ Done
    /\ GeminiFailed("methodology")
    /\ LastCall.logged = <<"AI request blocked due to safety settings: ", "SAFETY">>
    /\ Result.error = <<"Failed to generate thesis roadmap: ",
                        "Failed to get response from AI for ", "methodology", ".">>

(***************************************************************************)
(* Claims about registerUser (checked under SpecRegister)                  *)
(***************************************************************************)
RegisterEnded == hpc = "ended"
\* what User.findOne answered, and the calls that create and save a user
FoundExisting ==
    \E k \in 1..Len(hlog) : hlog[k] = ModelCall("User.findOne", "user")
CreateAttempts == {k \in 1..Len(hlog) : hlog[k].ev \in {"new User", "user.save"}}

\* C31: registerUser sends exactly one response per request (never two,
\* and one once the handler has ended), and a request with a missing field
\* or with an email that already belongs to a user never reaches new User
\* or user.save() and is answered with 400.
C31_RejectsWithoutCreating ==
    /\ Cardinality(Responses) <= 1
    /\ RegisterEnded => Cardinality(Responses) = 1
    /\ (FieldMissing(hreq) \/ FoundExisting) =>
          /\ CreateAttempts = {}
          /\ RegisterEnded => \A k \in Responses : hlog[k].status = 400

====
